---- MODULE Spec2Model ----
(***************************************************************************)
(* Refactor coordination core of forge.refactor: the Refactor State Store  *)
(* (state.py), the file-backed Signal Log (signals.py), the execution      *)
(* session controller (session.py), the audit controller (audit_agent.py)  *)
(* and the orchestrator's phase advance (orchestrator.py).                  *)
(*                                                                         *)
(* Specifications:                                                         *)
(*   Spec      one in-memory RefactorState driven through its methods      *)
(*   SpecCtl   the controllers, each a load-mutate-save on state.json      *)
(*             plus its signal, run one after the other                    *)
(*   SpecConc  independent processes interleaving load / save on the same  *)
(*             state.json                                                  *)
(*   SpecSig   write_signal and read_signals interleaved on one signals    *)
(*             directory                                                   *)
(*   SpecLog   write_signal, read_signals and clear_signals as whole calls  *)
(*   SpecFn    sanitize_session_id and AuditAgent paths, load_session_spec, *)
(*             SessionSpec.from_markdown, load_code_changes                 *)
(***************************************************************************)
EXTENDS Integers, Sequences, FiniteSets, TLC

\* ------------------------------------------------------------------ bounds

\* Clock readings handed out to the operations of Spec.
MaxClock == 4
\* Clock readings handed out to the operations of SpecCtl.
MaxCtlClock == 3
\* Operations started by the processes of SpecConc.
MaxConcOps == 3
\* write_signal calls started in SpecSig.
MaxWrites == 2
\* Largest wall-clock reading in SpecSig.
MaxTime == 2
\* files that are not signals, in the signals directory and its archive (SpecLog)
MaxForeign == 2
\* Characters of a session id handed to the audit controller (SpecFn).
MaxIdLen == 3
\* Session sections in a planning document (SpecFn).
MaxSections == 2
\* Sessions of an audited group whose diffs are loaded (SpecFn).
MaxAudited == 4

\* ------------------------------------------------------------- input sets

SessionIds == {"1.1", "1.2"}
CommitRefs == {"abc123"}
NoteTexts == {"", "missing tests"}
RefactorId == "demo"

\* Optional[...] values: None is the empty tuple, a value x is <<x>>.
None == <<>>
Some(x) == <<x>>

\* ------------------------------------------------------------ enumerations

RefactorStatus == {"planning", "executing", "paused", "completed"}
SessionStatus == {"pending", "in_progress", "completed", "needs_revision"}
AuditResult == {"pending", "passed", "failed"}
SignalType == {"session_started", "session_done", "audit_passed",
               "revision_needed", "question", "paused", "resumed"}

VARIABLES
    state,           \* Spec: the in-memory RefactorState object
    disk,            \* content of state.json (NoFile, Torn or a document)
    sigFiles,        \* signals directory: file name -> file content
    now,             \* next reading of datetime.now() (Spec, SpecCtl, SpecConc)
    op,              \* the operation that acted last and its outcome
    everInProgress,  \* session ids whose status has been in_progress
    proc,            \* SpecConc: each process's position, job and loaded state
    prevDoc,         \* SpecConc: the last complete document written to state.json
    opsStarted,      \* SpecConc: operations started so far
    writer,          \* SpecSig: the write_signal call in flight
    reader,          \* SpecSig: the read_signals call in flight
    calls,           \* SpecSig, SpecLog: write_signal calls started so far
    clearer,         \* SpecClr: the clear_signals call in flight
    archive,         \* SpecLog: signals/archive, folder name -> file name -> content
    written,         \* SpecLog: every signal a write_signal call has written
    auditDirs        \* SpecCtl: audit-sessions, directory name -> its CLAUDE.md

vars == <<state, disk, sigFiles, now, op, everInProgress, proc, prevDoc, opsStarted,
          writer, reader, calls, clearer, archive, written, auditDirs>>
concVars == <<proc, prevDoc, opsStarted>>
sigVars == <<writer, reader, calls, clearer>>
logVars == <<archive, written>>

\* state.json absent: a record no document equals.
NoFile == [file |-> "absent"]
\* state.json opened for writing and not yet (or not wholly) written.
Torn == [file |-> "truncated"]
NoOp == [name |-> "init", ok |-> TRUE]
Procs == {"p1", "p2"}
IdleProc == [pc |-> "idle", kind |-> "none", id |-> "none", t |-> 0,
             local |-> NoFile, base |-> NoFile]
IdleWriter == [pc |-> "idle"]
IdleReader == [pc |-> "idle", todo |-> {}, signals |-> <<>>, result |-> <<>>]
IdleClearer == [pc |-> "idle", todo |-> {}, folder |-> 0, path |-> NoFile]

\* --------------------------------------------------- SessionState / history

SessionState(session_id) ==
    [session_id |-> session_id,
     status |-> "pending",
     started_at |-> None,
     completed_at |-> None,
     commit_hash |-> None,
     audit_result |-> "pending",
     notes |-> "",
     iteration_count |-> 0]

StateChange(t, action, details) ==
    [timestamp |-> t, action |-> action, details |-> details]

RefactorState(t) ==
    [refactor_id |-> RefactorId,
     status |-> "planning",
     current_session |-> None,
     sessions |-> <<>>,
     started_at |-> None,
     updated_at |-> t,
     completed_at |-> None,
     history |-> <<>>]

_log_change(st, t, action, details) ==
    [st EXCEPT !.history = Append(@, StateChange(t, action, details))]

\* ------------------------------------------------- RefactorState operations
\* Each method is an operator from the object before the call to the object
\* after it; `t` is the reading of datetime.now() the call stamps.

\* add_session without the duplicate test.
add_session_never_raises(st, session_id) == FALSE

add_session_raises(st, session_id) == session_id \in DOMAIN st.sessions

add_session(st, session_id, t) ==
    _log_change(
        [st EXCEPT !.sessions = @ @@ (session_id :> SessionState(session_id))],
        t, "session_added", [session_id |-> session_id])

get_session(st, session_id) ==
    IF session_id \in DOMAIN st.sessions THEN Some(st.sessions[session_id]) ELSE None

\* start_session that leaves the overall status and current_session alone.
start_session_quietly(st, session_id, t) ==
    LET st1 == IF session_id \notin DOMAIN st.sessions
               THEN add_session(st, session_id, t) ELSE st
        old_status == st1.sessions[session_id].status
        st2 == [st1 EXCEPT !.sessions[session_id].status = "in_progress",
                           !.sessions[session_id].started_at = Some(t)]
    IN _log_change(st2, t, "session_started",
                   [session_id |-> session_id,
                    old_status |-> old_status,
                    new_status |-> "in_progress"])

start_session(st, session_id, t) ==
    LET st1 == IF session_id \notin DOMAIN st.sessions
               THEN add_session(st, session_id, t) ELSE st
        old_status == st1.sessions[session_id].status
        st2 == [st1 EXCEPT !.sessions[session_id].status = "in_progress",
                           !.sessions[session_id].started_at = Some(t),
                           !.current_session = Some(session_id),
                           !.status = "executing",
                           !.started_at = IF @ = None THEN Some(t) ELSE @]
    IN _log_change(st2, t, "session_started",
                   [session_id |-> session_id,
                    old_status |-> old_status,
                    new_status |-> "in_progress"])

\* `if commit_hash:` on an Optional[str]: neither None nor the empty string.
Truthy(opt) == opt # None /\ opt # Some("")

complete_session_raises(st, session_id) == session_id \notin DOMAIN st.sessions

\* complete_session that does not stamp completed_at.
complete_session_unstamped(st, session_id, commit_hash, notes, t) ==
    LET old_status == st.sessions[session_id].status
        st1 == [st EXCEPT !.sessions[session_id].status = "completed",
                          !.sessions[session_id].commit_hash =
                              IF Truthy(commit_hash) THEN commit_hash ELSE @,
                          !.sessions[session_id].notes =
                              IF notes # "" THEN notes ELSE @]
    IN _log_change(st1, t, "session_completed",
                   [session_id |-> session_id,
                    old_status |-> old_status,
                    commit_hash |-> commit_hash])

\* complete_session that stores its commit_hash and notes arguments whatever
\* they are.
complete_session_overwriting(st, session_id, commit_hash, notes, t) ==
    LET old_status == st.sessions[session_id].status
        st1 == [st EXCEPT !.sessions[session_id].status = "completed",
                          !.sessions[session_id].completed_at = Some(t),
                          !.sessions[session_id].commit_hash = commit_hash,
                          !.sessions[session_id].notes = notes]
    IN _log_change(st1, t, "session_completed",
                   [session_id |-> session_id,
                    old_status |-> old_status,
                    commit_hash |-> commit_hash])

complete_session(st, session_id, commit_hash, notes, t) ==
    LET old_status == st.sessions[session_id].status
        st1 == [st EXCEPT !.sessions[session_id].status = "completed",
                          !.sessions[session_id].completed_at = Some(t),
                          !.sessions[session_id].commit_hash =
                              IF Truthy(commit_hash) THEN commit_hash ELSE @,
                          !.sessions[session_id].notes =
                              IF notes # "" THEN notes ELSE @]
    IN _log_change(st1, t, "session_completed",
                   [session_id |-> session_id,
                    old_status |-> old_status,
                    commit_hash |-> commit_hash])

mark_needs_revision_raises(st, session_id) == session_id \notin DOMAIN st.sessions

\* mark_needs_revision that leaves audit_result alone.
mark_needs_revision_unaudited(st, session_id, notes, t) ==
    LET old_status == st.sessions[session_id].status
        st1 == [st EXCEPT !.sessions[session_id].status = "needs_revision",
                          !.sessions[session_id].notes =
                              IF notes # "" THEN notes ELSE @]
    IN _log_change(st1, t, "session_needs_revision",
                   [session_id |-> session_id,
                    old_status |-> old_status,
                    notes |-> notes])

mark_needs_revision(st, session_id, notes, t) ==
    LET old_status == st.sessions[session_id].status
        st1 == [st EXCEPT !.sessions[session_id].status = "needs_revision",
                          !.sessions[session_id].audit_result = "failed",
                          !.sessions[session_id].notes =
                              IF notes # "" THEN notes ELSE @]
    IN _log_change(st1, t, "session_needs_revision",
                   [session_id |-> session_id,
                    old_status |-> old_status,
                    notes |-> notes])

\* is_complete without the test for an empty refactor.
is_complete_vacuous(st) ==
    \A s \in DOMAIN st.sessions : st.sessions[s].status = "completed"

is_complete(st) ==
    /\ DOMAIN st.sessions # {}
    /\ \A s \in DOMAIN st.sessions : st.sessions[s].status = "completed"

\* The returned count.
increment_iteration_result(st, session_id) ==
    IF session_id \in DOMAIN st.sessions
    THEN st.sessions[session_id].iteration_count + 1
    ELSE 0

\* increment_iteration that does not log the change.
increment_iteration_unlogged(st, session_id, t) ==
    IF session_id \in DOMAIN st.sessions
    THEN [st EXCEPT !.sessions[session_id].iteration_count = @ + 1]
    ELSE st

increment_iteration(st, session_id, t) ==
    IF session_id \in DOMAIN st.sessions
    THEN _log_change(
             [st EXCEPT !.sessions[session_id].iteration_count = @ + 1],
             t, "iteration_incremented",
             [session_id |-> session_id,
              count |-> st.sessions[session_id].iteration_count + 1])
    ELSE st

\* save(path): stamps updated_at and writes the whole document.
save(st, t) == [st EXCEPT !.updated_at = t]

\* ------------------------------------------------------------ persistence

\* SessionState.to_dict / from_dict and RefactorState.to_dict / from_dict:
\* the document is rebuilt key by key, enumerations as their string values.
\* SessionState.to_dict that leaves the "notes" key out.
SessionState_to_dict_without_notes(sess) ==
    [session_id |-> sess.session_id,
     status |-> sess.status,
     started_at |-> sess.started_at,
     completed_at |-> sess.completed_at,
     commit_hash |-> sess.commit_hash,
     audit_result |-> sess.audit_result,
     iteration_count |-> sess.iteration_count]

SessionState_to_dict(sess) ==
    [session_id |-> sess.session_id,
     status |-> sess.status,
     started_at |-> sess.started_at,
     completed_at |-> sess.completed_at,
     commit_hash |-> sess.commit_hash,
     audit_result |-> sess.audit_result,
     notes |-> sess.notes,
     iteration_count |-> sess.iteration_count]

\* data.get(key, default)
Get(data, key, default) == IF key \in DOMAIN data THEN data[key] ELSE default

SessionState_from_dict(data) ==
    [session_id |-> data["session_id"],
     status |-> Get(data, "status", "pending"),
     started_at |-> Get(data, "started_at", None),
     completed_at |-> Get(data, "completed_at", None),
     commit_hash |-> Get(data, "commit_hash", None),
     audit_result |-> Get(data, "audit_result", "pending"),
     notes |-> Get(data, "notes", ""),
     iteration_count |-> Get(data, "iteration_count", 0)]

to_dict(st) ==
    [refactor_id |-> st.refactor_id,
     status |-> st.status,
     current_session |-> st.current_session,
     sessions |-> [sid \in DOMAIN st.sessions |-> SessionState_to_dict(st.sessions[sid])],
     started_at |-> st.started_at,
     updated_at |-> st.updated_at,
     completed_at |-> st.completed_at,
     history |-> [i \in DOMAIN st.history |->
                     [timestamp |-> st.history[i].timestamp,
                      action |-> st.history[i].action,
                      details |-> st.history[i].details]]]

\* from_dict that does not read the "history" key back.
from_dict_without_history(data) ==
    [refactor_id |-> data.refactor_id,
     status |-> data.status,
     current_session |-> data.current_session,
     sessions |-> [sid \in DOMAIN data.sessions |->
                      SessionState_from_dict(data.sessions[sid])],
     started_at |-> data.started_at,
     updated_at |-> data.updated_at,
     completed_at |-> data.completed_at,
     history |-> <<>>]

\* (to_dict always writes "updated_at": the default of that key, a clock
\* reading, is never taken.)
from_dict(data) ==
    LET sessions == Get(data, "sessions", <<>>)
        history == Get(data, "history", <<>>)
    IN  [refactor_id |-> data["refactor_id"],
         status |-> Get(data, "status", "planning"),
         current_session |-> Get(data, "current_session", None),
         sessions |-> [sid \in DOMAIN sessions |-> SessionState_from_dict(sessions[sid])],
         started_at |-> Get(data, "started_at", None),
         updated_at |-> data["updated_at"],
         completed_at |-> Get(data, "completed_at", None),
         history |-> [i \in DOMAIN history |->
                         StateChange(history[i]["timestamp"],
                                     history[i]["action"],
                                     Get(history[i], "details", <<>>))]]

\* state.save(path) as one step: the document that ends up in state.json.
saved(st, t) == to_dict(save(st, t))

\* RefactorState.load(path) of a complete document.
load(doc) == from_dict(doc)

\* ----------------------------------------------------------- ghost helpers

InProgressIds(st) ==
    IF st = NoFile THEN {}
    ELSE {s \in DOMAIN st.sessions : st.sessions[s].status = "in_progress"}

\* --------------------------------------------------------------- Spec
\* One RefactorState object; every action is one method call on it.

Init ==
    /\ state = RefactorState(0)
    /\ disk = NoFile
    /\ sigFiles = <<>>
    /\ now = 1
    /\ op = NoOp
    /\ everInProgress = {}
    /\ proc = [p \in Procs |-> IdleProc]
    /\ prevDoc = NoFile
    /\ opsStarted = 0
    /\ writer = IdleWriter
    /\ reader = IdleReader
    /\ calls = 0
    /\ clearer = IdleClearer
    /\ archive = <<>>
    /\ written = {}
    /\ auditDirs = <<>>

Tick == now' = now + 1

StoreStep(st2, opRec) ==
    /\ state' = st2
    /\ op' = opRec
    /\ everInProgress' = everInProgress \cup InProgressIds(st2)
    /\ UNCHANGED <<disk, sigFiles, concVars, sigVars, logVars, auditDirs>>

AddSession(id) ==
    /\ now <= MaxClock
    /\ IF add_session_raises(state, id)
       THEN /\ StoreStep(state, [name |-> "add_session", id |-> id, ok |-> FALSE])
            /\ UNCHANGED now
       ELSE /\ StoreStep(add_session(state, id, now),
                         [name |-> "add_session", id |-> id, ok |-> TRUE])
            /\ Tick

StartSession(id) ==
    /\ now <= MaxClock
    /\ StoreStep(start_session(state, id, now),
                 [name |-> "start_session", id |-> id, ok |-> TRUE])
    /\ Tick

CompleteSession(id, commit_hash, notes) ==
    /\ now <= MaxClock
    /\ IF complete_session_raises(state, id)
       THEN /\ StoreStep(state, [name |-> "complete_session", id |-> id, ok |-> FALSE])
            /\ UNCHANGED now
       ELSE /\ StoreStep(complete_session(state, id, commit_hash, notes, now),
                         [name |-> "complete_session", id |-> id, ok |-> TRUE,
                          commit_hash |-> commit_hash, notes |-> notes])
            /\ Tick

MarkNeedsRevision(id, notes) ==
    /\ now <= MaxClock
    /\ IF mark_needs_revision_raises(state, id)
       THEN /\ StoreStep(state, [name |-> "mark_needs_revision", id |-> id, ok |-> FALSE])
            /\ UNCHANGED now
       ELSE /\ StoreStep(mark_needs_revision(state, id, notes, now),
                         [name |-> "mark_needs_revision", id |-> id, ok |-> TRUE,
                          notes |-> notes])
            /\ Tick

IncrementIteration(id) ==
    /\ now <= MaxClock
    /\ StoreStep(increment_iteration(state, id, now),
                 [name |-> "increment_iteration", id |-> id, ok |-> TRUE,
                  result |-> increment_iteration_result(state, id)])
    /\ IF id \in DOMAIN state.sessions THEN Tick ELSE UNCHANGED now

\* state.save(path) followed by RefactorState.load(path): the object after
\* save, the document in state.json, and the object load returns.
SaveThenLoad ==
    /\ now <= MaxClock
    /\ disk' = saved(state, now)
    /\ state' = save(state, now)
    /\ op' = [name |-> "save_load", ok |-> TRUE, loaded |-> load(disk')]
    /\ Tick
    /\ UNCHANGED <<sigFiles, everInProgress, concVars, sigVars, logVars, auditDirs>>

\* state.is_complete(): a query, the object stays as it is.
IsComplete ==
    /\ StoreStep(state, [name |-> "is_complete", ok |-> TRUE, result |-> is_complete(state)])
    /\ UNCHANGED now

Next ==
    \/ IsComplete
    \/ SaveThenLoad
    \/ \E id \in SessionIds : AddSession(id)
    \/ \E id \in SessionIds : StartSession(id)
    \/ \E id \in SessionIds, c \in {None} \cup {Some(x) : x \in CommitRefs},
          n \in NoteTexts : CompleteSession(id, c, n)
    \/ \E id \in SessionIds, n \in NoteTexts : MarkNeedsRevision(id, n)
    \/ \E id \in SessionIds : IncrementIteration(id)

Spec == Init /\ [][Next]_vars


\* ---------------------------------------------------------------- signals

RECURSIVE Join(_, _)
\* sep.join(strs)
Join(strs, sep) ==
    IF Len(strs) = 0 THEN ""
    ELSE IF Len(strs) = 1 THEN strs[1]
    ELSE strs[1] \o sep \o Join(Tail(strs), sep)

\* A signal file's name: {timestamp:%Y%m%d_%H%M%S_%f}_{signal_type}.json
SignalFileName(t, signal_type) == [ts |-> t, type |-> signal_type]

Signal(signal_type, session_id, t, payload) ==
    [type |-> signal_type, session_id |-> session_id,
     timestamp |-> t, payload |-> payload]

\* write_signal run to its end with nothing interleaved: the file named after
\* the clock reading and the type holds the signal (os.rename replaces a file
\* already there).
write_signal(files, signal_type, session_id, payload, t) ==
    (SignalFileName(t, signal_type) :> Signal(signal_type, session_id, t, payload))
        @@ files

signal_session_started(files, session_id, worktree_path, t) ==
    write_signal(files, "session_started", session_id,
                 IF worktree_path # None
                 THEN [worktree_path |-> worktree_path[1]] ELSE <<>>, t)

signal_session_done(files, session_id, commit_hash, summary, t) ==
    write_signal(files, "session_done", session_id,
                 [commit_hash |-> commit_hash, summary |-> summary], t)

signal_audit_passed(files, session_id, notes, t) ==
    write_signal(files, "audit_passed", session_id, [notes |-> notes], t)

signal_revision_needed(files, session_id, issues, suggestions, t) ==
    write_signal(files, "revision_needed", session_id,
                 [issues |-> issues, suggestions |-> suggestions], t)


\* ------------------------------------------------------------ controllers
\* Inputs of the controllers.
WorktreePaths == {"wt"}
AuditGroups == {<<"1.1">>, <<"1.2">>, <<"1.1", "1.2">>}
IssueLists == {<<"missing tests">>}
EscalationReasons == {"same issues recur"}
OptCommit == {None} \cup {Some(c) : c \in CommitRefs}
OptWorktree == {None} \cup {Some(w) : w \in WorktreePaths}

\* update_state_audit_result that also closes the sessions it passes.
update_state_audit_result_completing(st, session_ids, passed) ==
    [st EXCEPT !.sessions =
        [sid \in DOMAIN st.sessions |->
            IF \E i \in DOMAIN session_ids : session_ids[i] = sid
            THEN [st.sessions[sid] EXCEPT
                     !.audit_result = IF passed THEN "passed" ELSE "failed",
                     !.status = IF passed THEN "completed" ELSE @]
            ELSE st.sessions[sid]]]

\* AuditAgent.update_state_audit_result on the loaded state (before its save).
update_state_audit_result(st, session_ids, passed) ==
    [st EXCEPT !.sessions =
        [sid \in DOMAIN st.sessions |->
            IF \E i \in DOMAIN session_ids : session_ids[i] = sid
            THEN [st.sessions[sid] EXCEPT
                     !.audit_result = IF passed THEN "passed" ELSE "failed"]
            ELSE st.sessions[sid]]]

RECURSIVE fail_loop(_, _, _, _)
\* record_audit_fail's loop over the audited ids: increment_iteration, then
\* mark_needs_revision. The result is the state and whether a call raised.
fail_loop(st, session_ids, notes, t) ==
    IF Len(session_ids) = 0 THEN [st |-> st, raised |-> FALSE]
    ELSE LET sid == Head(session_ids)
             st1 == increment_iteration(st, sid, t)
         IN IF mark_needs_revision_raises(st1, sid)
            THEN [st |-> st1, raised |-> TRUE]
            ELSE fail_loop(mark_needs_revision(st1, sid, notes, t),
                           Tail(session_ids), notes, t)

\* advance_phase that also puts the session advanced to in progress.
advance_phase_restarting(st, from_session, to_session, t) ==
    LET st1 == IF /\ from_session \in DOMAIN st.sessions
                  /\ st.sessions[from_session].status # "completed"
               THEN [st EXCEPT !.sessions[from_session].status = "completed",
                               !.sessions[from_session].completed_at = Some(t)]
               ELSE st
        st2 == IF to_session \in DOMAIN st1.sessions
               THEN [st1 EXCEPT !.sessions[to_session].status = "in_progress"]
               ELSE st1
    IN [st2 EXCEPT !.current_session = Some(to_session)]

\* advance_phase that stamps completed_at on every call.
advance_phase_restamping(st, from_session, to_session, t) ==
    LET st1 == IF from_session \in DOMAIN st.sessions
               THEN [st EXCEPT !.sessions[from_session].status = "completed",
                               !.sessions[from_session].completed_at = Some(t)]
               ELSE st
    IN [st1 EXCEPT !.current_session = Some(to_session)]

\* OrchestratorSession.advance_phase on the loaded state (before its save).
advance_phase(st, from_session, to_session, t) ==
    LET st1 == IF /\ from_session \in DOMAIN st.sessions
                  /\ st.sessions[from_session].status # "completed"
               THEN [st EXCEPT !.sessions[from_session].status = "completed",
                               !.sessions[from_session].completed_at = Some(t)]
               ELSE st
    IN [st1 EXCEPT !.current_session = Some(to_session)]

\* ------------------------------------------------------------- SpecCtl
\* The controllers run one after the other on one refactor directory; each
\* action is a whole call: load, mutate, save, signal. Each call reads the
\* clock once and the clock moves on between calls.

InitCtl ==
    /\ state = RefactorState(0)
    /\ disk = NoFile
    /\ sigFiles = <<>>
    /\ now = 1
    /\ op = NoOp
    /\ everInProgress = {}
    /\ proc = [p \in Procs |-> IdleProc]
    /\ prevDoc = NoFile
    /\ opsStarted = 0
    /\ writer = IdleWriter
    /\ reader = IdleReader
    /\ calls = 0
    /\ clearer = IdleClearer
    /\ archive = <<>>
    /\ written = {}
    /\ auditDirs = <<>>

CtlStep(doc, files, opRec) ==
    /\ disk' = doc
    /\ sigFiles' = files
    /\ op' = opRec
    /\ everInProgress' = everInProgress \cup
           (IF doc = NoFile THEN {} ELSE InProgressIds(doc))
    /\ UNCHANGED <<state, concVars, sigVars, logVars, auditDirs>>

\* launch in the order its docstring lists: the state is updated and saved
\* before the worktree is created.
Launch_state_before_worktree(id, outcome, worktree_path) ==
    /\ now <= MaxCtlClock
    /\ IF outcome = "no_spec"
       THEN /\ worktree_path = None
            /\ CtlStep(disk, sigFiles,
                       [name |-> "launch", id |-> id, ok |-> FALSE, at |-> outcome])
            /\ UNCHANGED now
       ELSE LET st0 == IF disk # NoFile THEN load(disk) ELSE RefactorState(now)
                st1 == start_session(st0, id, now)
            IN /\ outcome = "worktree_failed" => worktree_path = None
               /\ CtlStep(saved(st1, now),
                          IF outcome = "worktree_failed" THEN sigFiles
                          ELSE signal_session_started(sigFiles, id, worktree_path, now),
                          [name |-> "launch", id |-> id,
                           ok |-> (outcome = "launched"), at |-> outcome])
               /\ Tick

\* launch that undoes its save and its signal when the terminal does not open.
Launch_rolling_back(id, outcome, worktree_path) ==
    /\ now <= MaxCtlClock
    /\ IF outcome \in {"no_spec", "worktree_failed"}
       THEN /\ worktree_path = None
            /\ CtlStep(disk, sigFiles,
                       [name |-> "launch", id |-> id, ok |-> FALSE, at |-> outcome])
            /\ UNCHANGED now
       ELSE LET st0 == IF disk # NoFile THEN load(disk) ELSE RefactorState(now)
                st1 == start_session(st0, id, now)
            IN /\ IF outcome = "terminal_failed"
                  THEN CtlStep(disk, sigFiles,
                               [name |-> "launch", id |-> id, ok |-> FALSE, at |-> outcome])
                  ELSE CtlStep(saved(st1, now),
                               signal_session_started(sigFiles, id, worktree_path, now),
                               [name |-> "launch", id |-> id, ok |-> TRUE, at |-> outcome])
               /\ Tick

\* ExecutionSession.launch. outcome: where the call ends.
Launch(id, outcome, worktree_path) ==
    /\ now <= MaxCtlClock
    /\ IF outcome \in {"no_spec", "worktree_failed"}
       THEN /\ worktree_path = None
            /\ CtlStep(disk, sigFiles,
                       [name |-> "launch", id |-> id, ok |-> FALSE, at |-> outcome])
            /\ UNCHANGED now
       ELSE LET st0 == IF disk # NoFile THEN load(disk) ELSE RefactorState(now)
                st1 == start_session(st0, id, now)
            IN /\ CtlStep(saved(st1, now),
                          signal_session_started(sigFiles, id, worktree_path, now),
                          [name |-> "launch", id |-> id,
                           ok |-> (outcome = "launched"), at |-> outcome])
               /\ Tick

\* session.complete_session (the controller's complete).
CtlComplete(id, commit_arg, git_head, notes) ==
    /\ now <= MaxCtlClock
    /\ LET commit_hash == IF commit_arg # None THEN commit_arg ELSE git_head
       IN IF disk = NoFile
          THEN /\ CtlStep(disk, sigFiles,
                          [name |-> "complete", id |-> id, ok |-> FALSE, at |-> "no_state"])
               /\ UNCHANGED now
          ELSE IF complete_session_raises(load(disk), id)
          THEN /\ CtlStep(disk, sigFiles,
                          [name |-> "complete", id |-> id, ok |-> FALSE, at |-> "not_found"])
               /\ UNCHANGED now
          ELSE /\ CtlStep(
                     saved(complete_session(load(disk), id, commit_hash, notes, now), now),
                     signal_session_done(sigFiles, id, commit_hash,
                         IF notes # "" THEN notes
                         ELSE "Session " \o id \o " completed", now),
                     [name |-> "complete", id |-> id, ok |-> TRUE, at |-> "done"])
               /\ Tick

RecordAuditPass(session_ids, notes) ==
    /\ now <= MaxCtlClock
    /\ IF disk = NoFile
       THEN /\ CtlStep(disk, sigFiles,
                       [name |-> "record_audit_pass", ids |-> session_ids,
                        ok |-> FALSE, at |-> "no_refactor"])
            /\ UNCHANGED now
       ELSE LET sessions_str == Join(session_ids, ", ")
            IN /\ CtlStep(
                     saved(update_state_audit_result(load(disk), session_ids, TRUE), now),
                     signal_audit_passed(sigFiles, sessions_str,
                         IF notes # "" THEN notes
                         ELSE "Audit passed for sessions: " \o sessions_str, now),
                     [name |-> "record_audit_pass", ids |-> session_ids,
                      ok |-> TRUE, at |-> "done"])
               /\ Tick

RecordAuditFail(session_ids, issues) ==
    /\ now <= MaxCtlClock
    /\ IF disk = NoFile
       THEN /\ CtlStep(disk, sigFiles,
                       [name |-> "record_audit_fail", ids |-> session_ids,
                        ok |-> FALSE, at |-> "no_refactor"])
            /\ UNCHANGED now
       ELSE LET sessions_str == Join(session_ids, ", ")
                doc1 == saved(update_state_audit_result(load(disk), session_ids, FALSE), now)
                files1 == signal_revision_needed(sigFiles, sessions_str, issues, <<>>, now)
                r == fail_loop(load(doc1), session_ids, Join(issues, "; "), now)
            IN /\ IF r.raised
                  THEN CtlStep(doc1, files1,
                               [name |-> "record_audit_fail", ids |-> session_ids,
                                ok |-> FALSE, at |-> "raised"])
                  ELSE CtlStep(saved(r.st, now), files1,
                               [name |-> "record_audit_fail", ids |-> session_ids,
                                ok |-> TRUE, at |-> "done"])
               /\ Tick

AdvancePhase(from_session, to_session) ==
    /\ now <= MaxCtlClock
    /\ IF disk = NoFile
       THEN /\ CtlStep(disk, sigFiles,
                       [name |-> "advance_phase", id |-> from_session,
                        to |-> to_session, ok |-> FALSE, at |-> "no_state"])
            /\ UNCHANGED now
       ELSE /\ CtlStep(saved(advance_phase(load(disk), from_session, to_session, now), now),
                       sigFiles,
                       [name |-> "advance_phase", id |-> from_session,
                        to |-> to_session, ok |-> TRUE, at |-> "done"])
            /\ Tick

\* The highest iteration_count among the audited sessions that are in the
\* state (0 when none is).
RECURSIVE max_iteration(_, _)
max_iteration(st, session_ids) ==
    IF Len(session_ids) = 0 THEN 0
    ELSE LET rest == max_iteration(st, Tail(session_ids))
             sid == Head(session_ids)
         IN IF /\ sid \in DOMAIN st.sessions
               /\ st.sessions[sid].iteration_count > rest
            THEN st.sessions[sid].iteration_count ELSE rest

\* record_escalation. signals.py defines no signal_escalation_needed and
\* SignalType has no escalation member: the call that is to write the signal
\* raises and nothing is written.
RecordEscalation(session_ids, reason) ==
    /\ now <= MaxCtlClock
    /\ IF disk = NoFile
       THEN CtlStep(disk, sigFiles,
                    [name |-> "record_escalation", ids |-> session_ids,
                     ok |-> FALSE, at |-> "no_refactor"])
       ELSE CtlStep(disk, sigFiles,
                    [name |-> "record_escalation", ids |-> session_ids,
                     ok |-> FALSE, at |-> "raised",
                     iteration_count |-> max_iteration(load(disk), session_ids),
                     reason |-> reason])
    /\ UNCHANGED now

\* AuditAgent.launch that makes the audit directory before it looks for
\* state.json.
AuditLaunch_unvalidated(session_ids, outcome) ==
    /\ now <= MaxCtlClock
    /\ auditDirs' = (Join(session_ids, "-") :> [generated |-> now]) @@ auditDirs
    /\ IF disk = NoFile
       THEN /\ op' = [name |-> "audit_launch", ids |-> session_ids,
                      ok |-> FALSE, at |-> "no_refactor"]
            /\ UNCHANGED now
       ELSE /\ op' = [name |-> "audit_launch", ids |-> session_ids,
                      ok |-> (outcome = "launched"), at |-> outcome]
            /\ Tick
    /\ UNCHANGED <<state, disk, sigFiles, everInProgress, concVars, sigVars, logVars>>

\* AuditAgent.launch. outcome: whether the terminal opens. The audit
\* directory holds the CLAUDE.md generated at the clock reading.
AuditLaunch(session_ids, outcome) ==
    /\ now <= MaxCtlClock
    /\ IF disk = NoFile
       THEN /\ op' = [name |-> "audit_launch", ids |-> session_ids,
                      ok |-> FALSE, at |-> "no_refactor"]
            /\ UNCHANGED <<auditDirs, now>>
       ELSE /\ auditDirs' = (Join(session_ids, "-") :> [generated |-> now]) @@ auditDirs
            /\ op' = [name |-> "audit_launch", ids |-> session_ids,
                      ok |-> (outcome = "launched"), at |-> outcome]
            /\ Tick
    /\ UNCHANGED <<state, disk, sigFiles, everInProgress, concVars, sigVars, logVars>>

\* NextCtl and SpecCtl follow the orchestrator's status operations below.


\* ------------------------------------------------------------ SpecConc
\* Independent processes on one refactor directory. A process runs one
\* controller call at a time; its steps are the file operations of the call:
\* the load (exists + open + json.load), save's open(path, "w") that truncates
\* state.json, save's json.dump + close that writes the document, and the
\* signal write. Steps of different processes interleave freely.

ConcKinds == {"read_state", "launch", "complete", "audit_fail"}

InitConc ==
    /\ state = RefactorState(0)
    /\ disk = NoFile
    /\ sigFiles = <<>>
    /\ now = 1
    /\ op = NoOp
    /\ everInProgress = {}
    /\ proc = [p \in Procs |-> IdleProc]
    /\ prevDoc = NoFile
    /\ opsStarted = 0
    /\ writer = IdleWriter
    /\ reader = IdleReader
    /\ calls = 0
    /\ clearer = IdleClearer
    /\ archive = <<>>
    /\ written = {}
    /\ auditDirs = <<>>

ConcOp(p, name, ok, torn) == [name |-> name, proc |-> p, ok |-> ok, torn |-> torn]

\* A complete that registers a session it does not find instead of failing.
Loaded_defaulting(kind, id, t) ==
    CASE kind = "launch" ->
             start_session(IF disk = NoFile THEN RefactorState(t) ELSE load(disk), id, t)
      [] kind = "complete" ->
             IF disk = NoFile THEN NoFile
             ELSE IF complete_session_raises(load(disk), id)
             THEN complete_session(add_session(load(disk), id, t), id,
                                   Some("abc123"), "", t)
             ELSE complete_session(load(disk), id, Some("abc123"), "", t)
      [] kind = "audit_fail" ->
             IF disk = NoFile THEN NoFile
             ELSE update_state_audit_result(load(disk), <<id>>, FALSE)
      [] OTHER -> NoFile

\* The in-memory state a call builds from what it loaded, or NoFile when the
\* call returns at that point.
Loaded(kind, id, t) ==
    CASE kind = "launch" ->
             start_session(IF disk = NoFile THEN RefactorState(t) ELSE load(disk), id, t)
      [] kind = "complete" ->
             IF disk = NoFile \/ complete_session_raises(load(disk), id) THEN NoFile
             ELSE complete_session(load(disk), id, Some("abc123"), "", t)
      [] kind = "audit_fail" ->
             IF disk = NoFile THEN NoFile
             ELSE update_state_audit_result(load(disk), <<id>>, FALSE)
      [] OTHER -> NoFile

\* A call starts and loads state.json (RefactorState.load, or the exists()
\* test that finds no file).
BeginLoad(p, kind, id) ==
    /\ proc[p].pc = "idle"
    /\ opsStarted < MaxConcOps
    /\ opsStarted' = opsStarted + 1
    /\ now' = now + 1
    /\ IF disk = Torn
       THEN \* json.load raises on the empty or partial file
            /\ proc' = proc
            /\ op' = ConcOp(p, kind, FALSE, TRUE)
       ELSE LET st == Loaded(kind, id, now)
            IN /\ proc' = [proc EXCEPT ![p] =
                      IF st = NoFile THEN IdleProc
                      ELSE [pc |-> "save", kind |-> kind, id |-> id, t |-> now,
                            local |-> st, base |-> disk]]
               /\ op' = ConcOp(p, kind, kind = "read_state" \/ st # NoFile, FALSE)
    /\ UNCHANGED <<state, disk, sigFiles, everInProgress, prevDoc, sigVars, logVars, auditDirs>>

\* A call that emits its signal when it starts to save, before the document
\* is written.
SaveOpen_signalling(p) ==
    /\ proc[p].pc = "save"
    /\ disk' = Torn
    /\ proc' = [proc EXCEPT ![p].pc = "write"]
    /\ sigFiles' = IF proc[p].kind = "launch"
                   THEN signal_session_started(sigFiles, proc[p].id, None, proc[p].t)
                   ELSE sigFiles
    /\ op' = ConcOp(p, IF proc[p].kind = "launch" THEN "signal" ELSE "save_open",
                    TRUE, FALSE)
    /\ UNCHANGED <<state, now, everInProgress, prevDoc, opsStarted, sigVars, logVars, auditDirs>>

\* save: open(path, "w") truncates the file.
SaveOpen(p) ==
    /\ proc[p].pc = "save"
    /\ disk' = Torn
    /\ proc' = [proc EXCEPT ![p].pc = "write"]
    /\ op' = ConcOp(p, "save_open", TRUE, FALSE)
    /\ UNCHANGED <<state, sigFiles, now, everInProgress, prevDoc, opsStarted, sigVars, logVars, auditDirs>>

\* save: json.dump and close. The descriptor writes from offset 0: when
\* another process has written a document since this one truncated, the file
\* ends as this document, or as this document followed by the tail of the
\* longer one (not a document).
SaveWrite(p) ==
    /\ proc[p].pc = "write"
    /\ \E d \in {saved(proc[p].local, proc[p].t)} \cup (IF disk = Torn THEN {} ELSE {Torn}) :
          /\ disk' = d
          /\ prevDoc' = IF d = Torn THEN prevDoc ELSE d
    /\ proc' = [proc EXCEPT ![p].pc =
                   IF proc[p].kind = "audit_fail_2" THEN "idle" ELSE "signal"]
    /\ op' = ConcOp(p, "save_write", TRUE, FALSE)
    /\ UNCHANGED <<state, sigFiles, now, everInProgress, opsStarted, sigVars, logVars, auditDirs>>

\* The call's signal (write_signal as a whole).
WriteSignal(p) ==
    /\ proc[p].pc = "signal"
    /\ LET me == proc[p]
       IN /\ sigFiles' =
                CASE me.kind = "launch" ->
                         signal_session_started(sigFiles, me.id, None, me.t)
                  [] me.kind = "complete" ->
                         signal_session_done(sigFiles, me.id, Some("abc123"),
                                             "Session " \o me.id \o " completed", me.t)
                  [] OTHER ->
                         signal_revision_needed(sigFiles, me.id, <<"missing tests">>,
                                                <<>>, me.t)
          /\ proc' = [proc EXCEPT ![p] =
                IF me.kind = "audit_fail"
                THEN [me EXCEPT !.pc = "load2"] ELSE IdleProc]
    /\ op' = ConcOp(p, "signal", TRUE, FALSE)
    /\ UNCHANGED <<state, disk, now, everInProgress, prevDoc, opsStarted, sigVars, logVars, auditDirs>>

\* record_audit_fail's second load, and its loop over the audited ids.
LoadAgain(p) ==
    /\ proc[p].pc = "load2"
    /\ now' = now + 1
    /\ IF disk = Torn
       THEN /\ proc' = [proc EXCEPT ![p] = IdleProc]
            /\ op' = ConcOp(p, "audit_fail_2", FALSE, TRUE)
       ELSE LET r == fail_loop(load(disk), <<proc[p].id>>, "missing tests", now)
            IN /\ proc' = [proc EXCEPT ![p] =
                      IF r.raised THEN IdleProc
                      ELSE [pc |-> "save", kind |-> "audit_fail_2", id |-> proc[p].id,
                            t |-> now, local |-> r.st, base |-> disk]]
               /\ op' = ConcOp(p, "audit_fail_2", ~r.raised, FALSE)
    /\ UNCHANGED <<state, disk, sigFiles, everInProgress, prevDoc, opsStarted, sigVars, logVars, auditDirs>>

NextConc ==
    \/ \E p \in Procs, k \in ConcKinds, id \in SessionIds : BeginLoad(p, k, id)
    \/ \E p \in Procs : SaveOpen(p)
    \/ \E p \in Procs : SaveWrite(p)
    \/ \E p \in Procs : WriteSignal(p)
    \/ \E p \in Procs : LoadAgain(p)

SpecConc == InitConc /\ [][NextConc]_vars

\* ------------------------------------------------------------- SpecSig
\* One signals directory, a process calling write_signal and a process
\* calling read_signals. write_signal's steps are its file operations: the
\* clock reading with mkstemp (an empty signal_*.json in the signals
\* directory), json.dump + close, os.rename. read_signals' steps are the glob
\* (a listing of the *.json names) and one open + json.load per listed name,
\* in the order the directory yields them, then the sort.
\* datetime.now() is the wall clock: a reading is any value up to MaxTime,
\* equal to or below an earlier one included.

WriteTypes == {"session_started", "audit_passed"}
\* A file created by mkstemp and not yet written: no JSON in it.
EmptyFile == [file |-> "empty"]
\* mkstemp's name, signal_<random>.json.
TempName == [tmp |-> "signal_"]

\* Files in the directory that are not signals: invalid JSON text, JSON that
\* is not an object (a list, a string, a number, null), an object without a
\* required key, an object whose "type" is no SignalType value.
BadContents ==
    {[file |-> "invalid_json"], [file |-> "not_object"],
     [file |-> "missing_key"], [file |-> "unknown_type"]}

\* json.load(f) raises JSONDecodeError.
json_load_raises(content) == content \in {EmptyFile, [file |-> "invalid_json"]}

\* The exception Signal.from_dict(data) raises, "none" when it returns:
\* data["type"] on a non-object is a TypeError, on an object without the key
\* a KeyError; SignalType(value) on an unknown value is a ValueError.
Signal_from_dict_raises(data) ==
    CASE data = [file |-> "not_object"] -> "TypeError"
      [] data = [file |-> "missing_key"] -> "KeyError"
      [] data = [file |-> "unknown_type"] -> "ValueError"
      [] OTHER -> "none"

\* What the body of the try block in read_signals raises on one file.
ParseOutcome(content) ==
    IF json_load_raises(content) THEN "JSONDecodeError"
    ELSE Signal_from_dict_raises(content)

\* except (json.JSONDecodeError, KeyError, ValueError)
CaughtErrors == {"JSONDecodeError", "KeyError", "ValueError"}

IsSignal(content) == ParseOutcome(content) = "none"

\* Position of a signal type's value among the types in alphabetical order
\* (the order of the file names' suffixes).
TypeRank(signal_type) ==
    CASE signal_type = "audit_passed" -> 1
      [] signal_type = "paused" -> 2
      [] signal_type = "question" -> 3
      [] signal_type = "resumed" -> 4
      [] signal_type = "revision_needed" -> 5
      [] signal_type = "session_done" -> 6
      [] signal_type = "session_started" -> 7

\* Lexicographic order of two signal file names.
FileNameBefore(a, b) ==
    \/ a.ts < b.ts
    \/ a.ts = b.ts /\ TypeRank(a.type) < TypeRank(b.type)

RECURSIVE InsertByTimestamp(_, _)
\* `sig` put into the sorted `sorted` after every element whose timestamp is
\* not greater (sorted() is stable).
InsertByTimestamp(sorted, sig) ==
    IF Len(sorted) = 0 THEN <<sig>>
    ELSE IF sorted[Len(sorted)].timestamp <= sig.timestamp THEN Append(sorted, sig)
    ELSE Append(InsertByTimestamp(SubSeq(sorted, 1, Len(sorted) - 1), sig),
                sorted[Len(sorted)])

RECURSIVE SortByTimestamp(_)
\* sorted(signals, key=lambda s: s.timestamp)
SortByTimestamp(signals) ==
    IF Len(signals) = 0 THEN <<>>
    ELSE InsertByTimestamp(SortByTimestamp(SubSeq(signals, 1, Len(signals) - 1)),
                           signals[Len(signals)])

RECURSIVE ParseAll(_, _)
\* The loop of read_signals over the names in directory order `names`, no
\* other process acting: files that do not parse are skipped.
ParseAll(files, names) ==
    IF Len(names) = 0 THEN <<>>
    ELSE IF IsSignal(files[Head(names)])
         THEN <<files[Head(names)]>> \o ParseAll(files, Tail(names))
         ELSE ParseAll(files, Tail(names))

\* The orders a directory may yield the names of S in.
Orders(S) ==
    {o \in [1..Cardinality(S) -> S] : \A i, j \in 1..Cardinality(S) : i # j => o[i] # o[j]}

\* read_signals on a directory no other process touches meanwhile: the lists
\* it can return, one per directory order.
read_signals(files) ==
    {SortByTimestamp(ParseAll(files, o)) : o \in Orders(DOMAIN files)}

\* read_signals lets an exception escape: some file raises one the except
\* clause does not name.
read_signals_raises(files) ==
    \E n \in DOMAIN files : ParseOutcome(files[n]) \notin CaughtErrors \cup {"none"}

InitSig ==
    /\ state = RefactorState(0)
    /\ disk = NoFile
    /\ sigFiles = <<>>
    /\ now = 1
    /\ op = NoOp
    /\ everInProgress = {}
    /\ proc = [p \in Procs |-> IdleProc]
    /\ prevDoc = NoFile
    /\ opsStarted = 0
    /\ writer = IdleWriter
    /\ reader = IdleReader
    /\ calls = 0
    /\ clearer = IdleClearer
    /\ archive = <<>>
    /\ written = {}
    /\ auditDirs = <<>>

SigFrame ==
    UNCHANGED <<state, disk, now, everInProgress, concVars, clearer, logVars, auditDirs>>

\* write_signal up to mkstemp: the clock is read, the name and the signal are
\* built, the temporary file exists and is empty. The payload numbers the call.
W_Create(signal_type, session_id, t) ==
    /\ writer.pc = "idle"
    /\ calls < MaxWrites
    /\ calls' = calls + 1
    /\ writer' = [pc |-> "created",
                  path |-> SignalFileName(t, signal_type),
                  signal |-> Signal(signal_type, session_id, t, [call |-> calls + 1])]
    /\ sigFiles' = (TempName :> EmptyFile) @@ sigFiles
    /\ op' = [name |-> "w_create", ok |-> TRUE]
    /\ UNCHANGED reader
    /\ SigFrame

\* json.dump and close on the temporary file.
W_Write ==
    /\ writer.pc = "created"
    /\ writer' = [writer EXCEPT !.pc = "written"]
    /\ sigFiles' = [sigFiles EXCEPT ![TempName] = writer.signal]
    /\ op' = [name |-> "w_write", ok |-> TRUE]
    /\ UNCHANGED <<reader, calls>>
    /\ SigFrame

\* os.rename(temp_path, signal_path): the temporary name goes, the signal's
\* name holds the content, replacing a file of that name.
W_Rename ==
    /\ writer.pc = "written"
    /\ writer' = IdleWriter
    /\ sigFiles' = (writer.path :> sigFiles[TempName])
                      @@ [n \in DOMAIN sigFiles \ {TempName} |-> sigFiles[n]]
    /\ op' = [name |-> "w_rename", ok |-> TRUE]
    /\ UNCHANGED <<reader, calls>>
    /\ SigFrame

\* signals_dir.glob("*.json"): the names in the directory now.
R_Glob ==
    /\ reader.pc = "idle"
    /\ reader' = [IdleReader EXCEPT !.pc = "scan", !.todo = DOMAIN sigFiles]
    /\ op' = [name |-> "r_glob", ok |-> TRUE]
    /\ UNCHANGED <<sigFiles, writer, calls>>
    /\ SigFrame

\* One turn of the loop, on any name not yet visited: open raises
\* FileNotFoundError (not caught) when the name is gone, json.load raises
\* JSONDecodeError (caught: skipped) on an empty file.
R_Open(path) ==
    /\ reader.pc = "scan"
    /\ path \in reader.todo
    /\ IF path \notin DOMAIN sigFiles
       THEN /\ reader' = [IdleReader EXCEPT !.pc = "raised"]
            /\ op' = [name |-> "r_open", ok |-> FALSE]
       ELSE /\ reader' = [reader EXCEPT
                   !.todo = @ \ {path},
                   !.signals = IF IsSignal(sigFiles[path])
                               THEN Append(@, sigFiles[path]) ELSE @]
            /\ op' = [name |-> "r_open", ok |-> TRUE]
    /\ UNCHANGED <<sigFiles, writer, calls>>
    /\ SigFrame

\* return sorted(signals, key=timestamp)
R_Return ==
    /\ reader.pc = "scan"
    /\ reader.todo = {}
    /\ reader' = [IdleReader EXCEPT !.pc = "done",
                                     !.result = SortByTimestamp(reader.signals)]
    /\ op' = [name |-> "r_return", ok |-> TRUE]
    /\ UNCHANGED <<sigFiles, writer, calls>>
    /\ SigFrame

\* The caller goes on to its next read_signals call.
R_Again ==
    /\ reader.pc \in {"done", "raised"}
    /\ reader' = IdleReader
    /\ op' = [name |-> "r_again", ok |-> TRUE]
    /\ UNCHANGED <<sigFiles, writer, calls>>
    /\ SigFrame

NextSig ==
    \/ \E ty \in WriteTypes, t \in 1..MaxTime : W_Create(ty, "1.1", t)
    \/ W_Write
    \/ W_Rename
    \/ R_Glob
    \/ \E path \in reader.todo : R_Open(path)
    \/ R_Return
    \/ R_Again

SpecSig == InitSig /\ [][NextSig]_vars

\* ------------------------------------------------------------- SpecLog
\* One signals directory used by whole calls, one after the other:
\* write_signal, read_signals, clear_signals, and files that are not signals
\* appearing in the directory. The clock is the wall clock, as in SpecSig.

\* Clock readings per second: strftime("%Y%m%d_%H%M%S") drops the
\* microseconds of a reading.
TicksPerSecond == 2

\* archive_name of a clock reading.
ArchiveName(t) == t \div TicksPerSecond

\* A name and content for a file that is not a signal; the first is a
\* temporary file of write_signal that was never renamed.
ForeignFiles ==
    {<<TempName, EmptyFile>>} \cup {<<[other |-> c.file], c>> : c \in BadContents}

\* clear_signals: the archive after every *.json file of the directory has
\* been moved into the folder named after the clock reading (shutil.move
\* onto an existing file replaces it).
clear_signals(files, arch, t) ==
    LET folder == ArchiveName(t)
        before == IF folder \in DOMAIN arch THEN arch[folder] ELSE <<>>
    IN  (folder :> (files @@ before)) @@ arch

InitLog ==
    /\ state = RefactorState(0)
    /\ disk = NoFile
    /\ sigFiles = <<>>
    /\ now = 1
    /\ op = NoOp
    /\ everInProgress = {}
    /\ proc = [p \in Procs |-> IdleProc]
    /\ prevDoc = NoFile
    /\ opsStarted = 0
    /\ writer = IdleWriter
    /\ reader = IdleReader
    /\ calls = 0
    /\ clearer = IdleClearer
    /\ archive = <<>>
    /\ written = {}
    /\ auditDirs = <<>>

LogFrame ==
    UNCHANGED <<state, disk, now, everInProgress, concVars, writer, clearer, auditDirs>>

\* write_signal(signals_dir, signal_type, session_id, payload), clock reading t.
LogWrite(signal_type, session_id, t) ==
    /\ calls < MaxWrites
    /\ calls' = calls + 1
    /\ sigFiles' = write_signal(sigFiles, signal_type, session_id, [call |-> calls + 1], t)
    /\ written' = written \cup {Signal(signal_type, session_id, t, [call |-> calls + 1])}
    /\ reader' = IdleReader
    /\ op' = [name |-> "write_signal", ok |-> TRUE]
    /\ UNCHANGED archive
    /\ LogFrame

\* Files that are not signals, in the directory and in the archive.
ForeignCount ==
    Cardinality({n \in DOMAIN sigFiles : ~IsSignal(sigFiles[n])})
    + Cardinality({fn \in UNION {{<<f, n>> : n \in DOMAIN archive[f]} : f \in DOMAIN archive} :
                      ~IsSignal(archive[fn[1]][fn[2]])})

\* A file that is not a signal is in the directory.
LogPutFile(name, content) ==
    /\ name \notin DOMAIN sigFiles
    /\ ForeignCount < MaxForeign
    /\ sigFiles' = (name :> content) @@ sigFiles
    /\ reader' = IdleReader
    /\ op' = [name |-> "put_file", ok |-> TRUE]
    /\ UNCHANGED <<calls, archive, written>>
    /\ LogFrame

\* read_signals(signals_dir)
LogRead ==
    /\ IF read_signals_raises(sigFiles)
       THEN /\ reader' = [IdleReader EXCEPT !.pc = "raised"]
            /\ op' = [name |-> "read_signals", ok |-> FALSE]
       ELSE /\ \E r \in read_signals(sigFiles) :
                  reader' = [IdleReader EXCEPT !.pc = "done", !.result = r]
            /\ op' = [name |-> "read_signals", ok |-> TRUE]
    /\ UNCHANGED <<sigFiles, calls, archive, written>>
    /\ LogFrame

\* clear_signals(signals_dir), clock reading t.
LogClear(t) ==
    /\ archive' = clear_signals(sigFiles, archive, t)
    /\ sigFiles' = <<>>
    /\ reader' = IdleReader
    /\ op' = [name |-> "clear_signals", ok |-> TRUE]
    /\ UNCHANGED <<calls, written>>
    /\ LogFrame

NextLog ==
    \/ \E ty \in WriteTypes, t \in 0..MaxTime : LogWrite(ty, "1.1", t)
    \/ \E f \in ForeignFiles : LogPutFile(f[1], f[2])
    \/ LogRead
    \/ \E t \in 0..MaxTime : LogClear(t)

SpecLog == InitLog /\ [][NextLog]_vars

\* ------------------------------------------------------------- SpecClr
\* One write_signal call and one clear_signals call on the same directory,
\* step by step. The writer's steps are SpecSig's while its temporary file
\* is in the directory; the clock is the wall clock, as in SpecSig.

InitClr == InitSig

ClrFrame == UNCHANGED <<state, disk, now, everInProgress, concVars, reader, calls,
                        written, auditDirs>>

\* json.dump and close on the temporary file. The descriptor mkstemp opened
\* follows the file when clear_signals has moved it (shutil.move inside one
\* file system is os.rename): the text lands in the archived file, the one
\* archived temporary file that is still empty.
Clr_Write ==
    \/ /\ TempName \in DOMAIN sigFiles
       /\ W_Write
    \/ /\ TempName \notin DOMAIN sigFiles
       /\ writer.pc = "created"
       /\ writer' = [writer EXCEPT !.pc = "written"]
       /\ archive' = [f \in DOMAIN archive |->
                         [n \in DOMAIN archive[f] |->
                             IF n = TempName /\ archive[f][n] = EmptyFile
                             THEN writer.signal ELSE archive[f][n]]]
       /\ op' = [name |-> "w_write", ok |-> TRUE]
       /\ UNCHANGED <<sigFiles, clearer>>
       /\ ClrFrame

\* os.rename(temp_path, signal_path). With the temporary file gone from the
\* directory it raises FileNotFoundError; the handler finds no temp_path to
\* unlink and raises again: write_signal ends with the exception.
Clr_Rename ==
    \/ /\ TempName \in DOMAIN sigFiles
       /\ W_Rename
    \/ /\ TempName \notin DOMAIN sigFiles
       /\ writer.pc = "written"
       /\ writer' = IdleWriter
       /\ op' = [name |-> "w_rename", ok |-> FALSE]
       /\ UNCHANGED <<sigFiles, clearer, archive>>
       /\ ClrFrame

\* clear_signals up to the listing: the archive folder named after the clock
\* reading t exists, glob("*.json") has listed the directory (the writer's
\* signal_*.json too).
C_Glob(t) ==
    /\ clearer.pc = "idle"
    /\ clearer' = [pc |-> "listed", todo |-> DOMAIN sigFiles,
                   folder |-> ArchiveName(t), path |-> NoFile]
    /\ archive' = clear_signals(<<>>, archive, t)
    /\ op' = [name |-> "c_glob", ok |-> TRUE]
    /\ UNCHANGED <<sigFiles, writer>>
    /\ ClrFrame

\* path.is_file() on a listed name: a name that is gone is passed over.
C_IsFile(path) ==
    /\ clearer.pc = "listed"
    /\ path \in clearer.todo
    /\ clearer' = IF path \in DOMAIN sigFiles
                  THEN [clearer EXCEPT !.pc = "checked", !.path = path,
                                       !.todo = @ \ {path}]
                  ELSE [clearer EXCEPT !.todo = @ \ {path}]
    /\ op' = [name |-> "c_is_file", ok |-> TRUE]
    /\ UNCHANGED <<sigFiles, writer, archive>>
    /\ ClrFrame

\* shutil.move(str(path), archive_folder / path.name): the file leaves the
\* directory for the folder, replacing a file of its name there; on a name
\* that went since is_file it raises FileNotFoundError.
C_Move ==
    /\ clearer.pc = "checked"
    /\ IF clearer.path \in DOMAIN sigFiles
       THEN /\ archive' = [archive EXCEPT ![clearer.folder] =
                              (clearer.path :> sigFiles[clearer.path]) @@ @]
            /\ sigFiles' = [n \in DOMAIN sigFiles \ {clearer.path} |-> sigFiles[n]]
            /\ clearer' = [clearer EXCEPT !.pc = "listed", !.path = NoFile]
            /\ op' = [name |-> "c_move", ok |-> TRUE]
       ELSE /\ clearer' = IdleClearer
            /\ op' = [name |-> "c_move", ok |-> FALSE]
            /\ UNCHANGED <<sigFiles, archive>>
    /\ UNCHANGED writer
    /\ ClrFrame

\* The loop is over: clear_signals returns.
C_Return ==
    /\ clearer.pc = "listed"
    /\ clearer.todo = {}
    /\ clearer' = IdleClearer
    /\ op' = [name |-> "c_return", ok |-> TRUE]
    /\ UNCHANGED <<sigFiles, writer, archive>>
    /\ ClrFrame

NextClr ==
    \/ \E ty \in WriteTypes, t \in 1..MaxTime : W_Create(ty, "1.1", t)
    \/ Clr_Write
    \/ Clr_Rename
    \/ \E t \in 0..MaxTime : C_Glob(t)
    \/ \E path \in clearer.todo : C_IsFile(path)
    \/ C_Move
    \/ C_Return

SpecClr == InitClr /\ [][NextClr]_vars

\* ------------------------------------------------- orchestrator status
\* OrchestratorSession.check_signals and get_status_summary (SpecCtl).

RECURSIVE check_signals_timeline(_)
\* check_signals' loop: one SignalEvent per signal, in the order read.
check_signals_timeline(signals) ==
    IF Len(signals) = 0 THEN <<>>
    ELSE LET signal == Head(signals)
             summary ==
                 CASE signal.type = "session_started" -> <<"Session started">>
                   [] signal.type = "session_done" ->
                          IF Truthy(signal.payload.commit_hash)
                          THEN <<"Session done (commit: ", signal.payload.commit_hash[1], ")">>
                          ELSE <<"Session done">>
                   [] signal.type = "audit_passed" -> <<"Audit passed">>
                   [] signal.type = "revision_needed" ->
                          <<"Revision needed", Len(signal.payload.issues)>>
                   [] OTHER -> <<signal.type>>
         IN <<[timestamp |-> signal.timestamp, signal_type |-> signal.type,
               session_id |-> signal.session_id, summary |-> summary]>>
            \o check_signals_timeline(Tail(signals))

\* The SignalSummary check_signals builds from the list read_signals returned.
check_signals(signals) ==
    LET Of(signal_type) ==
            SelectSeq(signals, LAMBDA g : g.type = signal_type)
        Ids_of(seq) == [i \in DOMAIN seq |-> seq[i].session_id]
    IN [total_signals |-> Len(signals),
        sessions_started |-> Ids_of(Of("session_started")),
        sessions_done |-> Ids_of(Of("session_done")),
        audits_passed |-> Ids_of(Of("audit_passed")),
        revisions_needed |-> Ids_of(Of("revision_needed")),
        pending_questions |-> Ids_of(Of("question")),
        latest_signal |-> IF Len(signals) > 0 THEN Some(signals[Len(signals)]) ELSE None,
        timeline |-> check_signals_timeline(signals)]

\* What get_status_summary reports of the state read and the signal summary.
get_status_summary(doc, summary) ==
    IF doc = NoFile THEN [status |-> "No state found"]
    ELSE LET st == load(doc)
             count(status) ==
                 Cardinality({s \in DOMAIN st.sessions : st.sessions[s].status = status})
         IN [status |-> st.status,
             current_session |-> st.current_session,
             pending |-> count("pending"),
             in_progress |-> count("in_progress"),
             completed |-> count("completed"),
             needs_revision |-> count("needs_revision"),
             pending_questions |-> Len(summary.pending_questions),
             latest_signal |-> summary.latest_signal]

\* check_signals: read_signals on the signals directory, then the summary.
CheckSignals ==
    /\ \E signals \in read_signals(sigFiles) :
          CtlStep(disk, sigFiles,
                  [name |-> "check_signals", ok |-> TRUE, at |-> "done",
                   result |-> check_signals(signals)])
    /\ UNCHANGED now

\* get_status_summary that saves the state it has read.
GetStatusSummary_saving ==
    /\ \E signals \in read_signals(sigFiles) :
          CtlStep(IF disk = NoFile THEN disk ELSE saved(load(disk), now), sigFiles,
                  [name |-> "get_status_summary", ok |-> TRUE, at |-> "done",
                   result |-> get_status_summary(disk, check_signals(signals))])
    /\ UNCHANGED now

\* get_status_summary: read_state, check_signals, then the text.
GetStatusSummary ==
    /\ \E signals \in read_signals(sigFiles) :
          CtlStep(disk, sigFiles,
                  [name |-> "get_status_summary", ok |-> TRUE, at |-> "done",
                   result |-> get_status_summary(disk, check_signals(signals))])
    /\ UNCHANGED now

NextCtl ==
    \/ \E id \in SessionIds, o \in {"no_spec", "worktree_failed"} : Launch(id, o, None)
    \/ \E id \in SessionIds, o \in {"launched", "terminal_failed"},
          w \in OptWorktree : Launch(id, o, w)
    \/ \E id \in SessionIds, c \in OptCommit, g \in OptCommit, n \in NoteTexts :
          CtlComplete(id, c, g, n)
    \/ \E g \in AuditGroups : RecordAuditPass(g, "")
    \/ \E g \in AuditGroups, i \in IssueLists : RecordAuditFail(g, i)
    \/ \E f \in SessionIds, t \in SessionIds : AdvancePhase(f, t)
    \/ \E g \in AuditGroups, r \in EscalationReasons : RecordEscalation(g, r)
    \/ \E g \in AuditGroups, o \in {"launched", "terminal_failed"} : AuditLaunch(g, o)
    \/ CheckSignals
    \/ GetStatusSummary

SpecCtl == InitCtl /\ [][NextCtl]_vars

\* ------------------------------------------------------------- SpecFn
\* Functions of the controllers that compute a value from their arguments
\* and the files they read: op holds the caller's input, then the call and
\* what it returned.

\* sanitize_session_id and the paths the AuditAgent builds from session ids.
\* A string is the sequence of its characters.

\* Characters of the ids tried: a letter, a digit, the three punctuation
\* characters of the allow-list, the path separator and a blank.
IdChars == {"a", "1", ".", "-", "_", "/", " "}
\* The class [a-zA-Z0-9._-] among them.
AllowedChars == {"a", "1", ".", "-", "_"}

\* The ids tried: every string of at most MaxIdLen of these characters.
RawIds ==
    LET RECURSIVE StringsUpTo(_)
        StringsUpTo(n) ==
            IF n = 0 THEN {<<>>}
            ELSE LET shorter == StringsUpTo(n - 1)
                 IN shorter \cup {Append(x, c) : x \in shorter, c \in IdChars}
    IN StringsUpTo(MaxIdLen)

\* re.sub(r'[^a-zA-Z0-9._-]', '_', s)
ReplaceDisallowed(str) ==
    [i \in DOMAIN str |-> IF str[i] \in AllowedChars THEN str[i] ELSE "_"]

RECURSIVE CollapseDots(_)
\* re.sub(r'\.\.+', '.', s): every run of two or more dots becomes one dot.
CollapseDots(str) ==
    IF Len(str) = 0 THEN <<>>
    ELSE IF Len(str) >= 2 /\ str[1] = "." /\ str[2] = "."
    THEN CollapseDots(Tail(str))
    ELSE <<Head(str)>> \o CollapseDots(Tail(str))

\* sanitize_session_id without its second substitution.
sanitize_session_id_keeping_dots(session_id) == ReplaceDisallowed(session_id)

sanitize_session_id(session_id) == CollapseDots(ReplaceDisallowed(session_id))

RECURSIVE AuditAgent_session_ids(_)
\* AuditAgent.__init__: the ids whose strip() is not empty, sanitized.
AuditAgent_session_ids(session_ids) ==
    IF Len(session_ids) = 0 THEN <<>>
    ELSE LET sid == Head(session_ids)
         IN (IF \E i \in DOMAIN sid : sid[i] # " "
             THEN <<sanitize_session_id(sid)>> ELSE <<>>)
            \o AuditAgent_session_ids(Tail(session_ids))

\* refactor_dir / subdir / name: the depth of the path below the refactor
\* directory, -1 when it is outside. An absolute name replaces the path;
\* otherwise the components between the separators are walked from subdir:
\* empty and "." components stay, ".." goes up, any other goes down.
PathDepth(name) ==
    LET RECURSIVE SplitPath(_, _)
        SplitPath(str, cur) ==
            IF Len(str) = 0 THEN <<cur>>
            ELSE IF Head(str) = "/" THEN <<cur>> \o SplitPath(Tail(str), <<>>)
            ELSE SplitPath(Tail(str), Append(cur, Head(str)))
        RECURSIVE Walk(_, _)
        Walk(depth, comps) ==
            IF depth < 0 \/ Len(comps) = 0 THEN depth
            ELSE LET c == Head(comps)
                 IN Walk(IF c = <<>> \/ c = <<".">> THEN depth
                         ELSE IF c = <<".", ".">> THEN depth - 1
                         ELSE depth + 1,
                         Tail(comps))
    IN IF Len(name) > 0 /\ Head(name) = "/" THEN -1
       ELSE Walk(1, SplitPath(name, <<>>))

\* The names an AuditAgent for these ids joins to directories of the
\* refactor: each id (its session directory) and "-".join(ids) (the audit
\* directory of the group).
AuditAgent_paths(ids) ==
    LET RECURSIVE JoinChars(_)
        JoinChars(strs) ==
            IF Len(strs) = 0 THEN <<>>
            ELSE IF Len(strs) = 1 THEN strs[1]
            ELSE strs[1] \o <<"-">> \o JoinChars(Tail(strs))
    IN {ids[i] : i \in DOMAIN ids} \cup
       (IF Len(ids) = 0 THEN {} ELSE {JoinChars(ids)})

\* ExecutionSession.load_session_spec. A planning document is the sequence
\* of the identifiers in its "### Session <id>" headers, a per-session
\* spec.md the identifier in its header; a file that does not exist is None.
PlanSectionIds == {<<"1", ".", "1">>, <<"1", ".", "1", "0">>}

PlanDocs ==
    {None} \cup
    UNION {{Some(d) : d \in [1..n -> PlanSectionIds]} : n \in 0..MaxSections}

\* The section handed to SessionSpec.from_markdown and the file it is from
\* (0: sessions/{id}/spec.md, 1..3: the candidate planning documents in
\* order), or None. re.search with "###\s+Session\s+" + re.escape(id) +
\* ".*?" finds the first header whose text goes on from the id.
load_session_spec(session_id, session_file, plans) ==
    LET Matches(header) ==
            /\ Len(session_id) <= Len(header)
            /\ SubSeq(header, 1, Len(session_id)) = session_id
        Found(i) ==
            /\ plans[i] # None
            /\ \E j \in DOMAIN plans[i][1] : Matches(plans[i][1][j])
    IN IF session_file # None
       THEN Some([source |-> 0, header |-> session_file[1]])
       ELSE IF \E i \in DOMAIN plans : Found(i)
       THEN LET i == CHOOSE k \in DOMAIN plans :
                         Found(k) /\ \A l \in DOMAIN plans : Found(l) => k <= l
                j == CHOOSE k \in DOMAIN plans[i][1] :
                         /\ Matches(plans[i][1][k])
                         /\ \A l \in DOMAIN plans[i][1] :
                               Matches(plans[i][1][l]) => k <= l
            IN Some([source |-> i, header |-> plans[i][1][j]])
       ELSE None

\* SessionSpec.from_markdown. The markdown is the sequence of its lines, a
\* line being a header, a table row, a **MARKER** line, a code fence, a
\* bullet, a checkbox item, a rule or plain text. SectionNames are the
\* sections from_markdown looks for, in the order a plan writes them;
\* SectionLines(name) is such a section as the plan format writes it.
SectionNames == <<"Worktree", "Scope", "Start When", "Stop When", "PROMPT",
                  "ASK USER IF", "EXIT CRITERIA", "GIT INSTRUCTIONS", "HANDOFF">>

SectionLines(name) ==
    CASE name = "Worktree" -> <<[t |-> "row", k |-> "Worktree", v |-> "YES"]>>
      [] name = "Scope" ->
             <<[t |-> "row", k |-> "Scope", v |-> [in |-> "state", out |-> "cli"]]>>
      [] name = "Start When" -> <<[t |-> "row", k |-> "Start When", v |-> "after 1.0"]>>
      [] name = "Stop When" -> <<[t |-> "row", k |-> "Stop When", v |-> "tests pass"]>>
      [] name = "PROMPT" ->
             <<[t |-> "marker", k |-> "PROMPT"], [t |-> "fence", lang |-> ""],
               [t |-> "text", v |-> "implement the state store"],
               [t |-> "fence", lang |-> ""]>>
      [] name = "ASK USER IF" ->
             <<[t |-> "marker", k |-> "ASK USER IF"],
               [t |-> "bullet", v |-> "scope unclear"]>>
      [] name = "EXIT CRITERIA" ->
             <<[t |-> "marker", k |-> "EXIT CRITERIA"],
               [t |-> "check", v |-> "tests pass"], [t |-> "check", v |-> "committed"]>>
      [] name = "GIT INSTRUCTIONS" ->
             <<[t |-> "marker", k |-> "GIT INSTRUCTIONS"], [t |-> "fence", lang |-> "bash"],
               [t |-> "text", v |-> "git commit"], [t |-> "fence", lang |-> ""]>>
      [] OTHER ->
             <<[t |-> "marker", k |-> "HANDOFF"], [t |-> "text", v |-> "next: 1.2"]>>

\* The session block of a plan that has the sections in present.
Markdown(present) ==
    LET RECURSIVE Build(_)
        Build(i) ==
            IF i > Len(SectionNames) THEN <<[t |-> "rule"]>>
            ELSE (IF SectionNames[i] \in present
                  THEN SectionLines(SectionNames[i]) ELSE <<>>) \o Build(i + 1)
    IN <<[t |-> "header", id |-> "1.1", v |-> "Core State"]>> \o Build(1)

\* First(S): the least index of S, 0 when S is empty.
First(S) == IF S = {} THEN 0 ELSE CHOOSE i \in S : \A j \in S : i <= j

\* A search that takes the first fenced block of the text, wherever it is.
fenced_block_anywhere(content, marker, langs) ==
    LET open == First({i \in DOMAIN content :
                         content[i].t = "fence" /\ content[i].lang \in langs})
        close == IF open = 0 THEN 0
                 ELSE First({i \in DOMAIN content : i > open /\ content[i].t = "fence"})
    IN IF close = 0 THEN <<>> ELSE SubSeq(content, open + 1, close - 1)

\* re.search(r"\*\*MARKER\*\*.*?```(lang)?\s*\n(.*?)```", content, DOTALL):
\* the lines between the first fence after the marker that opens with one of
\* langs and the fence after it; no match gives the empty string.
fenced_block(content, marker, langs) ==
    LET at == First({i \in DOMAIN content :
                       content[i].t = "marker" /\ content[i].k = marker})
        open == IF at = 0 THEN 0
                ELSE First({i \in DOMAIN content :
                              /\ i > at
                              /\ content[i].t = "fence"
                              /\ content[i].lang \in langs})
        close == IF open = 0 THEN 0
                 ELSE First({i \in DOMAIN content : i > open /\ content[i].t = "fence"})
    IN IF close = 0 THEN <<>> ELSE SubSeq(content, open + 1, close - 1)

\* SessionSpec.from_markdown(session_id, content). A text field is the
\* sequence of the lines captured (<<>>: the empty string).
from_markdown(session_id, content) ==
    LET Row(key) == First({i \in DOMAIN content :
                             content[i].t = "row" /\ content[i].k = key})
        Marker(key) == First({i \in DOMAIN content :
                                content[i].t = "marker" /\ content[i].k = key})
        \* the run of lines of the kinds in ts right after line i
        RECURSIVE Run(_, _)
        Run(i, ts) ==
            IF i + 1 \in DOMAIN content /\ content[i + 1].t \in ts
            THEN <<content[i + 1]>> \o Run(i + 1, ts) ELSE <<>>
        title == First({i \in DOMAIN content : content[i].t = "header"})
        scope == Row("Scope")
        ask == IF Marker("ASK USER IF") = 0 THEN <<>>
               ELSE Run(Marker("ASK USER IF"), {"bullet", "check"})
        exit == IF Marker("EXIT CRITERIA") = 0 THEN <<>>
                ELSE Run(Marker("EXIT CRITERIA"), {"check"})
        handoff == Marker("HANDOFF")
        stop == First({i \in DOMAIN content :
                         /\ i > handoff
                         /\ \/ content[i].t = "rule"
                            \/ content[i].t = "marker" /\ content[i].k = "Files"})
    IN [session_id |-> session_id,
        title |-> IF title = 0 THEN "Session " \o session_id ELSE content[title].v,
        worktree |-> Row("Worktree") # 0 /\ content[Row("Worktree")].v = "YES",
        scope_in |-> IF scope = 0 THEN <<>> ELSE <<content[scope].v.in>>,
        scope_out |-> IF scope = 0 THEN <<>> ELSE <<content[scope].v.out>>,
        start_when |-> IF Row("Start When") = 0 THEN "" ELSE content[Row("Start When")].v,
        stop_when |-> IF Row("Stop When") = 0 THEN "" ELSE content[Row("Stop When")].v,
        prompt |-> fenced_block(content, "PROMPT", {""}),
        ask_user_if |-> [i \in DOMAIN ask |->
                            IF ask[i].t = "check" THEN "[ ] " \o ask[i].v ELSE ask[i].v],
        exit_criteria |-> [i \in DOMAIN exit |-> exit[i].v],
        git_instructions |-> fenced_block(content, "GIT INSTRUCTIONS", {"", "bash"}),
        handoff |-> IF handoff = 0 THEN <<>>
                    ELSE SubSeq(content, handoff + 1,
                                IF stop = 0 THEN Len(content) ELSE stop - 1)]

\* AuditAgent.load_code_changes. Its two caps.
max_lines_per_commit == 500
max_total_lines == 1500

\* Lines of a commit's "git show" output, around the per-commit cap.
DiffLens == {499, 500, 501}

RECURSIVE load_code_changes(_, _)
\* The loop of load_code_changes over the audited sessions: diffs[i] is
\* None when session i has no commit to show, else the number of lines git
\* show prints for it. The result is the list `changes`: a commit's header
\* with the lines shown, the "... (n more lines)" marker, the "...
\* (truncated, too many changes to show)" marker.
load_code_changes(diffs, total_lines) ==
    IF Len(diffs) = 0 THEN <<>>
    ELSE IF total_lines >= max_total_lines THEN <<[kind |-> "truncated"]>>
    ELSE IF Head(diffs) = None THEN load_code_changes(Tail(diffs), total_lines)
    ELSE LET lines == Head(diffs)[1]
             shown == IF lines < max_lines_per_commit THEN lines
                      ELSE max_lines_per_commit
         IN <<[kind |-> "commit", lines |-> shown]>>
            \o (IF lines > max_lines_per_commit
                THEN <<[kind |-> "more", lines |-> lines - max_lines_per_commit]>>
                ELSE <<>>)
            \o load_code_changes(Tail(diffs), total_lines + shown)

\* What the callers hand in.
FnInputs ==
    {[name |-> "caller", raw |-> r] : r \in RawIds}
    \cup {[name |-> "files", session_id |-> id, session_file |-> f, plans |-> pl] :
              id \in PlanSectionIds,
              f \in {None} \cup {Some(h) : h \in PlanSectionIds},
              pl \in [1..3 -> PlanDocs]}
    \cup {[name |-> "commits", diffs |-> d] :
              d \in UNION {[1..n -> {None} \cup {Some(l) : l \in DiffLens}] :
                              n \in 1..MaxAudited}}
    \cup {[name |-> "markdown", present |-> pr] :
              pr \in SUBSET {SectionNames[i] : i \in DOMAIN SectionNames}}

InitFn ==
    /\ state = RefactorState(0)
    /\ disk = NoFile
    /\ sigFiles = <<>>
    /\ now = 1
    /\ op \in FnInputs
    /\ everInProgress = {}
    /\ proc = [p \in Procs |-> IdleProc]
    /\ prevDoc = NoFile
    /\ opsStarted = 0
    /\ writer = IdleWriter
    /\ reader = IdleReader
    /\ calls = 0
    /\ clearer = IdleClearer
    /\ archive = <<>>
    /\ written = {}
    /\ auditDirs = <<>>

OnlyOp == UNCHANGED <<state, disk, sigFiles, now, everInProgress, concVars, sigVars,
                      logVars, auditDirs>>

\* sanitize_session_id(raw)
Sanitize ==
    /\ op.name = "caller"
    /\ op' = [name |-> "sanitize", raw |-> op.raw, out |-> sanitize_session_id(op.raw)]
    /\ OnlyOp

\* AuditAgent(refactor_id, session_ids, project_root) for the ids before,
\* and the paths it builds.
NewAuditAgent(before) ==
    /\ op.name = "caller"
    /\ LET ids == AuditAgent_session_ids(before \o <<op.raw>>)
       IN op' = [name |-> "audit_agent", raw |-> op.raw, session_ids |-> ids,
                 paths |-> AuditAgent_paths(ids)]
    /\ OnlyOp

\* load_session_spec()
LoadSessionSpec ==
    /\ op.name = "files"
    /\ op' = [name |-> "load_session_spec", session_id |-> op.session_id,
              session_file |-> op.session_file, plans |-> op.plans,
              result |-> load_session_spec(op.session_id, op.session_file, op.plans)]
    /\ OnlyOp

\* SessionSpec.from_markdown("1.1", content)
FromMarkdown ==
    /\ op.name = "markdown"
    /\ op' = [name |-> "from_markdown", present |-> op.present,
              result |-> from_markdown("1.1", Markdown(op.present))]
    /\ OnlyOp

\* load_code_changes()
LoadCodeChanges ==
    /\ op.name = "commits"
    /\ op' = [name |-> "load_code_changes", diffs |-> op.diffs,
              changes |-> load_code_changes(op.diffs, 0)]
    /\ OnlyOp

NextFn ==
    \/ LoadSessionSpec
    \/ LoadCodeChanges
    \/ FromMarkdown
    \/ Sanitize
    \/ \E before \in {<<>>, <<<<"1", ".", "1">>>>, <<<<".">>>>} : NewAuditAgent(before)

SpecFn == InitFn /\ [][NextFn]_vars

\* ------------------------------------------------------------------ claims

StatusOf(doc, s) == doc.sessions[s].status

\* C1: a session's status is completed or needs_revision only if the session
\* was in_progress at some earlier point (no transition skips in_progress).
C1_NoStatusSkipsInProgress ==
    \A s \in DOMAIN state.sessions :
        StatusOf(state, s) \in {"completed", "needs_revision"} => s \in everInProgress

C3_CompletedAtIffCompleted ==
    \A s \in DOMAIN state.sessions :
        (state.sessions[s].completed_at # None) <=> (StatusOf(state, s) = "completed")

\* C4: current_session is null or a key of sessions.
C4_CurrentSessionIsKey ==
    disk # NoFile =>
        \/ disk.current_session = None
        \/ disk.current_session[1] \in DOMAIN disk.sessions

\* What C6 calls a state mutation: the session fields and current_session.
Tracked(doc) ==
    <<doc.current_session,
      [s \in DOMAIN doc.sessions |->
          <<doc.sessions[s].status, doc.sessions[s].audit_result,
            doc.sessions[s].iteration_count, doc.sessions[s].completed_at>>]>>

\* C6: every operation that changes a session's status, audit_result,
\* iteration_count, completed_at or the current_session appends at least one
\* StateChange to history.
C6_EveryMutationIsLogged ==
    [][(disk # NoFile /\ disk' # NoFile /\ Tracked(disk') # Tracked(disk))
          => Len(disk'.history) > Len(disk.history)]_vars


IsPrefix(a, b) == Len(a) <= Len(b) /\ SubSeq(b, 1, Len(a)) = a

\* Between two documents persisted one after the other: history only grows and
\* no iteration_count drops.
Extends(old, new) ==
    /\ IsPrefix(old.history, new.history)
    /\ \A s \in DOMAIN old.sessions :
          /\ s \in DOMAIN new.sessions
          /\ new.sessions[s].iteration_count >= old.sessions[s].iteration_count

\* A step that writes a complete document over an earlier one.
Persists == disk' # Torn /\ disk' # disk /\ prevDoc # NoFile

\* C5 as claimed: under any interleaving of load-mutate-save operations, every
\* persisted history has the previously persisted history as a prefix and no
\* persisted iteration_count decreases.
C5_PersistedHistoryAppendOnly ==
    [][Persists => Extends(prevDoc, disk')]_vars

\* C5 amended: the same, for every save by a process whose loaded document is
\* still the last one persisted (no other process saved in between).
C5_AppendOnlyWhenNoSaveIntervened ==
    [][(Persists /\ proc[op'.proc].base = prevDoc) => Extends(prevDoc, disk')]_vars

\* C5 witness: a process has saved over the document it loaded, and its
\* history is longer than the one it replaced.
C5_Witness ==
    /\ op.name = "save_write"
    /\ disk # Torn /\ disk # NoFile
    /\ proc[op.proc].base # NoFile
    /\ IsPrefix(proc[op.proc].base.history, disk.history)
    /\ Len(disk.history) > Len(proc[op.proc].base.history)
    /\ \E s \in DOMAIN disk.sessions : disk.sessions[s].iteration_count > 0

\* C7: a load of state.json never finds an empty or truncated document, also
\* while another process is inside save.
C7_LoadNeverSeesPartialDocument ==
    op.name \in ConcKinds \cup {"audit_fail_2"} => ~op.torn


\* write_signal calls that have returned.
CompletedCalls == IF writer.pc = "idle" THEN calls ELSE calls - 1

\* C8: read_signals never raises, and what it returns holds each signal at
\* most once, also when a write_signal runs meanwhile.
C8_ReaderNeverSeesPartialWrite ==
    /\ reader.pc # "raised"
    /\ reader.pc = "done" =>
          \A i, j \in DOMAIN reader.result :
              i # j => reader.result[i].payload # reader.result[j].payload

\* C9: with no archive call, read_signals returns as many signals as
\* write_signal calls have completed (no call replaces an earlier file).
C9_OneFilePerCompletedWrite ==
    writer.pc = "idle" =>
        \A r \in read_signals(sigFiles) : Len(r) = CompletedCalls

\* C10: read_signals returns the signals in the order the write_signal calls
\* were made, which is the lexicographic order of their file names.
C10_ReadOrderIsWriteOrder ==
    writer.pc = "idle" =>
        \A r \in read_signals(sigFiles) :
            \A i, j \in DOMAIN r :
                i < j => /\ r[i].payload.call < r[j].payload.call
                         /\ FileNameBefore(SignalFileName(r[i].timestamp, r[i].type),
                                           SignalFileName(r[j].timestamp, r[j].type))


\* Signals among the contents of a directory listing.
SignalsIn(files) == {files[n] : n \in {m \in DOMAIN files : IsSignal(files[m])}}

\* C11: whatever files that do not parse lie in the directory, read_signals
\* raises nothing and returns exactly the valid signals of the directory.
C11_ReadSkipsEveryBadFile ==
    op.name = "read_signals" =>
        /\ reader.pc = "done"
        /\ {reader.result[i] : i \in DOMAIN reader.result} = SignalsIn(sigFiles)
        /\ Len(reader.result) = Cardinality(SignalsIn(sigFiles))

\* Signals held under signals/ and signals/archive/**.
StoredSignals ==
    SignalsIn(sigFiles) \cup UNION {SignalsIn(archive[f]) : f \in DOMAIN archive}

\* C12: a clear_signals call loses no signal (those under signals/ and its
\* archive are the same before and after) and leaves nothing for read_signals
\* to return, and read_signals returns no archived signal.
C12_ClearConservesSignals ==
    [][/\ op'.name = "clear_signals" =>
            /\ StoredSignals' = StoredSignals
            /\ read_signals(sigFiles') = {<<>>}
       /\ (op'.name = "read_signals" /\ reader'.pc = "done") =>
            \A i \in DOMAIN reader'.result : reader'.result[i] \in SignalsIn(sigFiles)]_vars


\* The last entry of a history.
Last(h) == h[Len(h)]

\* Every session but `id` is what it was.
OthersUnchanged(id) ==
    \A s \in DOMAIN state.sessions \ {id} :
        s \in DOMAIN state'.sessions /\ state'.sessions[s] = state.sessions[s]

\* C13: after start_session(id), from any state, the session exists (created
\* first when absent), its status is in_progress, its started_at is the time
\* of the call, current_session is id, the overall status is executing, and
\* the last history entry is session_started with the old and the new status.
C13_StartSessionPostcondition ==
    [][op'.name = "start_session" =>
          LET id == op'.id
              absent == id \notin DOMAIN state.sessions
              old == IF absent THEN "pending" ELSE state.sessions[id].status
          IN  /\ id \in DOMAIN state'.sessions
              /\ state'.sessions[id].status = "in_progress"
              /\ state'.sessions[id].started_at = Some(now)
              /\ state'.current_session = Some(id)
              /\ state'.status = "executing"
              /\ state'.started_at # None
              /\ IsPrefix(state.history, state'.history)
              /\ Len(state'.history) = Len(state.history) + (IF absent THEN 2 ELSE 1)
              /\ Last(state'.history) =
                     StateChange(now, "session_started",
                                 [session_id |-> id, old_status |-> old,
                                  new_status |-> "in_progress"])
              /\ OthersUnchanged(id)]_vars

\* C13 witness: start_session has created the session it started.
C13_Witness ==
    /\ op.name = "start_session"
    /\ Len(state.history) >= 3
    /\ state.history[Len(state.history) - 1].action = "session_added"
    /\ state.history[Len(state.history) - 1].details.session_id = op.id
    /\ Last(state.history).action = "session_started"
    /\ state.sessions[op.id].status = "in_progress"

\* C14: complete_session on an absent id fails and changes nothing; on a
\* present id the status is completed, completed_at is the time of the call,
\* commit_hash and notes are stored when given, and exactly one
\* session_completed entry is appended.
C14_CompleteSessionContract ==
    [][op'.name = "complete_session" =>
          LET id == op'.id IN
          IF id \notin DOMAIN state.sessions
          THEN ~op'.ok /\ state' = state
          ELSE /\ op'.ok
               /\ DOMAIN state'.sessions = DOMAIN state.sessions
               /\ state'.sessions[id].status = "completed"
               /\ state'.sessions[id].completed_at = Some(now)
               /\ state'.sessions[id].commit_hash =
                      (IF op'.commit_hash # None THEN op'.commit_hash
                       ELSE state.sessions[id].commit_hash)
               /\ state'.sessions[id].notes =
                      (IF op'.notes # "" THEN op'.notes ELSE state.sessions[id].notes)
               /\ Len(state'.history) = Len(state.history) + 1
               /\ IsPrefix(state.history, state'.history)
               /\ Last(state'.history).action = "session_completed"
               /\ Last(state'.history).details.session_id = id
               /\ OthersUnchanged(id)
               /\ state'.current_session = state.current_session
               /\ state'.status = state.status]_vars

\* C14 witness: complete_session has failed on an absent id while another
\* session and its history exist.
C14_Witness ==
    /\ op.name = "complete_session"
    /\ ~op.ok
    /\ op.id \notin DOMAIN state.sessions
    /\ Len(state.history) > 0

\* C15: mark_needs_revision on an absent id fails and changes nothing; on a
\* present id the status is needs_revision, audit_result is failed, one
\* StateChange is appended and iteration_count is what it was.
C15_MarkNeedsRevisionContract ==
    [][op'.name = "mark_needs_revision" =>
          LET id == op'.id IN
          IF id \notin DOMAIN state.sessions
          THEN ~op'.ok /\ state' = state
          ELSE /\ op'.ok
               /\ DOMAIN state'.sessions = DOMAIN state.sessions
               /\ state'.sessions[id].status = "needs_revision"
               /\ state'.sessions[id].audit_result = "failed"
               /\ state'.sessions[id].iteration_count = state.sessions[id].iteration_count
               /\ Len(state'.history) = Len(state.history) + 1
               /\ IsPrefix(state.history, state'.history)
               /\ Last(state'.history).action = "session_needs_revision"
               /\ Last(state'.history).details.session_id = id
               /\ OthersUnchanged(id)]_vars

\* C15 witness: mark_needs_revision has acted on a session whose
\* iteration_count is not zero.
C15_Witness ==
    /\ op.name = "mark_needs_revision"
    /\ op.ok
    /\ state.sessions[op.id].status = "needs_revision"
    /\ state.sessions[op.id].audit_result = "failed"
    /\ state.sessions[op.id].iteration_count > 0

\* C16: increment_iteration returns 0 and changes nothing on an absent id;
\* on a present id the count grows by exactly 1, the new count is returned
\* and one StateChange is appended; and no operation lowers a count.
C16_IncrementIterationContract ==
    [][/\ op'.name = "increment_iteration" =>
            LET id == op'.id IN
            IF id \notin DOMAIN state.sessions
            THEN op'.result = 0 /\ state' = state
            ELSE /\ state'.sessions[id].iteration_count =
                        state.sessions[id].iteration_count + 1
                 /\ op'.result = state'.sessions[id].iteration_count
                 /\ Len(state'.history) = Len(state.history) + 1
                 /\ IsPrefix(state.history, state'.history)
                 /\ Last(state'.history).action = "iteration_incremented"
                 /\ Last(state'.history).details.count = op'.result
                 /\ [state'.sessions[id] EXCEPT !.iteration_count = 0]
                        = [state.sessions[id] EXCEPT !.iteration_count = 0]
                 /\ OthersUnchanged(id)
       /\ \A s \in DOMAIN state.sessions :
            /\ s \in DOMAIN state'.sessions
            /\ state'.sessions[s].iteration_count >= state.sessions[s].iteration_count]_vars

\* C16 witness: a fresh session, mark_needs_revision, then two
\* increment_iteration calls: the count is 2.
C16_Witness ==
    /\ op.name = "increment_iteration"
    /\ op.result = 2
    /\ Len(state.history) = 4
    /\ state.history[1].action = "session_added"
    /\ state.history[2].action = "session_needs_revision"
    /\ state.history[3].action = "iteration_incremented"
    /\ state.history[4].action = "iteration_incremented"
    /\ state.sessions[op.id].iteration_count = 2

\* C17: add_session on an id already present fails and changes nothing;
\* otherwise the new session is pending with audit_result pending and
\* iteration_count 0, and one StateChange is appended.
C17_AddSessionContract ==
    [][op'.name = "add_session" =>
          LET id == op'.id IN
          IF id \in DOMAIN state.sessions
          THEN ~op'.ok /\ state' = state
          ELSE /\ op'.ok
               /\ DOMAIN state'.sessions = DOMAIN state.sessions \cup {id}
               /\ state'.sessions[id].status = "pending"
               /\ state'.sessions[id].audit_result = "pending"
               /\ state'.sessions[id].iteration_count = 0
               /\ state'.history =
                      Append(state.history,
                             StateChange(now, "session_added", [session_id |-> id]))
               /\ OthersUnchanged(id)]_vars

\* C17 witness: add_session has failed on a session that has left pending and
\* has been through an audit iteration.
C17_Witness ==
    /\ op.name = "add_session"
    /\ ~op.ok
    /\ state.sessions[op.id].status # "pending"
    /\ state.sessions[op.id].iteration_count > 0

\* C18: is_complete() is true iff there is at least one session and none is
\* pending, in_progress or needs_revision.
C18_IsCompleteIffAllCompleted ==
    op.name = "is_complete" =>
        (op.result <=>
            /\ Cardinality(DOMAIN state.sessions) >= 1
            /\ ~\E s \in DOMAIN state.sessions :
                  state.sessions[s].status \in {"pending", "in_progress", "needs_revision"})

\* C18 witness: is_complete() has returned true on two completed sessions.
C18_Witness ==
    /\ op.name = "is_complete"
    /\ op.result
    /\ Cardinality(DOMAIN state.sessions) = 2


\* C19: load(path) right after save(path) returns a state equal to the saved
\* one in every field: refactor_id, status, current_session, every session,
\* the timestamps (updated_at included) and the whole ordered history.
C19_SaveLoadRoundTrip ==
    op.name = "save_load" =>
        /\ op.loaded = state
        /\ op.loaded.history = state.history
        /\ op.loaded.updated_at = state.updated_at
        /\ DOMAIN op.loaded.sessions = DOMAIN state.sessions

\* C19 witness: a state with two sessions, notes, a commit and a history of
\* three entries or more has been saved and loaded.
C19_Witness ==
    /\ op.name = "save_load"
    /\ Cardinality(DOMAIN state.sessions) = 2
    /\ Len(state.history) >= 3
    /\ \E s \in DOMAIN state.sessions :
          state.sessions[s].notes # "" /\ state.sessions[s].completed_at # None


\* session_started signals for session id in the signal log.
StartedSignals(files, id) ==
    {n \in DOMAIN files :
        IsSignal(files[n]) /\ files[n].type = "session_started" /\ files[n].session_id = id}

OnlyWriter(p) ==
    /\ disk # Torn
    /\ prevDoc \in {proc[p].base, saved(proc[p].local, proc[p].t)}
    /\ disk = prevDoc

\* C21: when a launch emits its session_started signal and no other process
\* has written state.json meanwhile, state.json already records the session
\* as in_progress (also when it was needs_revision), with current_session
\* the session and the overall status executing, and the step adds exactly
\* one session_started signal for the session to the log.
C21_StateSavedBeforeStartSignal ==
    [][(op'.name = "signal" /\ proc[op'.proc].kind = "launch" /\ OnlyWriter(op'.proc)) =>
          LET s == proc[op'.proc].id IN
          /\ disk # NoFile
          /\ s \in DOMAIN disk.sessions
          /\ disk.sessions[s].status = "in_progress"
          /\ disk.current_session = Some(s)
          /\ disk.status = "executing"
          /\ Cardinality(DOMAIN sigFiles') = Cardinality(DOMAIN sigFiles) + 1
          /\ Cardinality(StartedSignals(sigFiles', s)) =
                 Cardinality(StartedSignals(sigFiles, s)) + 1]_vars

\* C21 witness: a launch has emitted its signal for a session that was
\* needs_revision; state.json shows the session in_progress.
C21_Witness ==
    /\ op.name = "signal"
    /\ disk # NoFile /\ disk # Torn
    /\ \E s \in DOMAIN disk.sessions :
          /\ disk.sessions[s].status = "in_progress"
          /\ disk.current_session = Some(s)
          /\ Last(disk.history).action = "session_started"
          /\ Last(disk.history).details.session_id = s
          /\ Last(disk.history).details.old_status = "needs_revision"
          /\ \E n \in StartedSignals(sigFiles, s) :
                sigFiles[n].timestamp = Last(disk.history).timestamp


\* C22: when the terminal does not open after the signal was written, launch
\* returns failure while state.json shows the session in_progress, with
\* current_session set and the overall status executing, and the
\* session_started signal of the call is in the log.
C22_LaunchDoesNotRollBack ==
    (op.name = "launch" /\ op.at = "terminal_failed") =>
        /\ ~op.ok
        /\ disk # NoFile
        /\ op.id \in DOMAIN disk.sessions
        /\ disk.sessions[op.id].status = "in_progress"
        /\ disk.current_session = Some(op.id)
        /\ disk.status = "executing"
        /\ \E n \in StartedSignals(sigFiles, op.id) :
              sigFiles[n].timestamp = disk.sessions[op.id].started_at[1]

\* C22 witness: a launch into a worktree has failed at the terminal; the
\* signal with the worktree path is in the log.
C22_Witness ==
    /\ op.name = "launch"
    /\ op.at = "terminal_failed"
    /\ ~op.ok
    /\ \E n \in StartedSignals(sigFiles, op.id) :
          sigFiles[n].payload = [worktree_path |-> "wt"]
    /\ disk.sessions[op.id].status = "in_progress"


\* session_done signals for session id in the signal log.
DoneSignals(files, id) ==
    {n \in DOMAIN files :
        IsSignal(files[n]) /\ files[n].type = "session_done" /\ files[n].session_id = id}

RevisionSignals(files) ==
    {n \in DOMAIN files : IsSignal(files[n]) /\ files[n].type = "revision_needed"}

\* The ids of an audited group.
Ids(session_ids) == {session_ids[i] : i \in DOMAIN session_ids}

\* C24: after record_audit_fail on an existing refactor, every audited
\* session that was in the state is needs_revision with audit_result failed
\* and an iteration_count one more than before, and exactly one
\* revision_needed signal carrying the supplied issues has been appended.
C24_AuditFailMarksEverySession ==
    [][(op'.name = "record_audit_fail" /\ disk # NoFile) =>
          /\ \A sid \in Ids(op'.ids) \cap DOMAIN disk.sessions :
                /\ disk'.sessions[sid].status = "needs_revision"
                /\ disk'.sessions[sid].audit_result = "failed"
                /\ disk'.sessions[sid].iteration_count =
                       disk.sessions[sid].iteration_count + 1
          /\ Cardinality(DOMAIN sigFiles') = Cardinality(DOMAIN sigFiles) + 1
          /\ \E n \in RevisionSignals(sigFiles') \ DOMAIN sigFiles :
                sigFiles'[n].payload.issues = <<"missing tests">>]_vars


\* audit_passed signals in the signal log.
PassedSignals(files) ==
    {n \in DOMAIN files : IsSignal(files[n]) /\ files[n].type = "audit_passed"}

\* C25: record_audit_pass on an existing refactor sets audit_result to
\* passed for every audited session in the state and changes nothing else
\* of any session (status, iteration_count, commit reference, timestamps,
\* notes), and appends exactly one signal, an audit_passed one.
C25_AuditPassOnlySetsResult ==
    [][(op'.name = "record_audit_pass" /\ disk # NoFile) =>
          /\ op'.ok
          /\ DOMAIN disk'.sessions = DOMAIN disk.sessions
          /\ \A sid \in DOMAIN disk.sessions :
                disk'.sessions[sid] =
                    IF sid \in Ids(op'.ids)
                    THEN [disk.sessions[sid] EXCEPT !.audit_result = "passed"]
                    ELSE disk.sessions[sid]
          /\ Cardinality(DOMAIN sigFiles') = Cardinality(DOMAIN sigFiles) + 1
          /\ Cardinality(PassedSignals(sigFiles')) =
                 Cardinality(PassedSignals(sigFiles)) + 1]_vars

\* C25 witness: an audit has passed a session that is needs_revision after
\* one failed audit; the audit_passed signal is in the log.
C25_Witness ==
    /\ op.name = "record_audit_pass"
    /\ op.ok
    /\ \E sid \in Ids(op.ids) \cap DOMAIN disk.sessions :
          /\ disk.sessions[sid].audit_result = "passed"
          /\ disk.sessions[sid].status = "needs_revision"
          /\ disk.sessions[sid].iteration_count = 1
    /\ PassedSignals(sigFiles) # {}


\* C26: record_escalation on an existing refactor with a valid session id
\* returns success, leaves state.json as it was and appends exactly one
\* signal, which read_signals returns, whose payload carries the reason and
\* the highest iteration_count of the audited sessions.
C26_EscalationWritesOneSignal ==
    [][(op'.name = "record_escalation" /\ disk # NoFile /\ Ids(op'.ids) # {}) =>
          /\ op'.ok
          /\ disk' = disk
          /\ Cardinality(DOMAIN sigFiles') = Cardinality(DOMAIN sigFiles) + 1
          /\ \E n \in DOMAIN sigFiles' \ DOMAIN sigFiles :
                /\ sigFiles'[n].payload.reason = op'.reason
                /\ sigFiles'[n].payload.iteration_count =
                       max_iteration(load(disk), op'.ids)
                /\ read_signals(sigFiles') # read_signals(sigFiles)]_vars

\* The audit operations.
AuditOps == {"audit_launch", "record_audit_pass", "record_audit_fail", "record_escalation"}

\* C27: an audit operation (AuditAgent.launch, record_audit_pass,
\* record_audit_fail, record_escalation) on a refactor with no state.json
\* returns the not-found failure and writes nothing: no signal, no
\* state.json, no audit directory with its CLAUDE.md.
C27_AuditNeedsStateDocument ==
    [][(op'.name \in AuditOps /\ disk = NoFile) =>
          /\ ~op'.ok
          /\ op'.at = "no_refactor"
          /\ disk' = NoFile
          /\ sigFiles' = sigFiles
          /\ auditDirs' = auditDirs]_vars

\* C27 witness: the audit launch has been refused for want of state.json,
\* and there is no state.json, no signal and no audit directory.
C27_Witness ==
    /\ op.name = "audit_launch"
    /\ op.at = "no_refactor"
    /\ ~op.ok
    /\ disk = NoFile
    /\ sigFiles = <<>>
    /\ auditDirs = <<>>

\* C28: record_audit_pass, record_audit_fail and record_escalation given a
\* session id that is not in the state return failure, write no signal and
\* leave state.json as it was.
C28_AbsentSessionIsRefused ==
    [][(/\ op'.name \in {"record_audit_pass", "record_audit_fail", "record_escalation"}
        /\ disk # NoFile
        /\ \E sid \in Ids(op'.ids) : sid \notin DOMAIN disk.sessions) =>
          /\ ~op'.ok
          /\ sigFiles' = sigFiles
          /\ disk' = disk]_vars

\* C29: record_audit_fail, record_audit_pass, session.complete_session and
\* advance_phase end by returning a result, never by raising, and after a
\* call that failed every revision_needed signal in the log names only
\* sessions that state.json holds as failed an audit with an iteration
\* counted.
C29_ControllersReturnAndStayConsistent ==
    (op.name \in {"record_audit_fail", "record_audit_pass", "complete", "advance_phase"}) =>
        /\ op.at # "raised"
        /\ ~op.ok =>
              \A n \in RevisionSignals(sigFiles) : \A g \in AuditGroups :
                  sigFiles[n].session_id = Join(g, ", ") =>
                      \A sid \in Ids(g) :
                          /\ disk # NoFile
                          /\ sid \in DOMAIN disk.sessions
                          /\ disk.sessions[sid].iteration_count >= 1


\* C30: advance_phase(A, B) with no state.json returns failure and creates
\* none. Otherwise it succeeds with current_session B; a session A of the
\* state is completed afterwards, stamped with the call's time when it was
\* not completed before and left as it was when it was; and a second call
\* with the same arguments, made later, leaves the sessions, current_session,
\* the overall status and the history as the first call left them.
C30_AdvancePhaseIdempotent ==
    [][(op'.name = "advance_phase") =>
          IF disk = NoFile
          THEN ~op'.ok /\ disk' = NoFile
          ELSE LET A == op'.id
                   B == op'.to
                   twice == saved(advance_phase(load(disk'), A, B, now'), now')
               IN /\ op'.ok
                  /\ disk'.current_session = Some(B)
                  /\ A \in DOMAIN disk.sessions =>
                        /\ disk'.sessions[A].status = "completed"
                        /\ IF disk.sessions[A].status = "completed"
                           THEN disk'.sessions = disk.sessions
                           ELSE disk'.sessions[A].completed_at = Some(now)
                  /\ twice.sessions = disk'.sessions
                  /\ twice.current_session = disk'.current_session
                  /\ twice.status = disk'.status
                  /\ twice.history = disk'.history
                  /\ (op.name = "advance_phase" /\ op.id = A /\ op.to = B) =>
                        /\ disk'.sessions = disk.sessions
                        /\ disk'.current_session = disk.current_session
                        /\ disk'.history = disk.history]_vars

\* C30 witness: advance_phase has acted on a session that an earlier
\* advance_phase completed (no completion is in the history); the session
\* keeps the earlier stamp.
C30_Witness ==
    /\ op.name = "advance_phase"
    /\ op.ok
    /\ op.id \in DOMAIN disk.sessions
    /\ disk.sessions[op.id].status = "completed"
    /\ disk.sessions[op.id].completed_at # None
    /\ disk.sessions[op.id].completed_at[1] < disk.updated_at
    /\ disk.current_session = Some(op.to)
    /\ \A i \in DOMAIN disk.history : disk.history[i].action # "session_completed"


\* A string of allowed characters only, with no two dots in a row.
IsSafeId(str) ==
    /\ \A i \in DOMAIN str : str[i] \in AllowedChars /\ str[i] # "/"
    /\ \A i \in 1..(Len(str) - 1) : ~(str[i] = "." /\ str[i + 1] = ".")

\* C31: sanitize_session_id returns a string of characters of
\* [a-zA-Z0-9._-] only, with no '/' and no '..' in it, and returns an input
\* that is such a string already as it is; every session id an AuditAgent
\* holds is such a string, and every path it builds from its ids is inside
\* the refactor directory.
C31_SanitizedIdsStayInside ==
    /\ op.name = "sanitize" =>
          /\ IsSafeId(op.out)
          /\ IsSafeId(op.raw) => op.out = op.raw
    /\ op.name = "audit_agent" =>
          /\ \A i \in DOMAIN op.session_ids : IsSafeId(op.session_ids[i])
          /\ \A path \in op.paths : PathDepth(path) >= 0

\* C31 witness: an AuditAgent was made for the ids "." and "../"; it holds
\* "." and "._" and its audit directory is ".-._".
C31_Witness ==
    /\ op.name = "audit_agent"
    /\ op.raw = <<".", ".", "/">>
    /\ op.session_ids = <<<<".">>, <<".", "_">>>>
    /\ <<".", "-", ".", "_">> \in op.paths


\* C32: whenever an operation leaves every session completed, the overall
\* status is completed and the refactor's completed_at is set; and the
\* overall status does not go from executing back to planning.
C32_RefactorReachesCompleted ==
    [][/\ is_complete(state') =>
             /\ state'.status = "completed"
             /\ state'.completed_at # None
       /\ state.status = "executing" => state'.status # "planning"]_vars


\* C33: check_signals and get_status_summary leave state.json, the signal
\* files and the audit directories as they are. check_signals reports as
\* many signals as the log holds and as its timeline has entries, and its
\* latest_signal is the signal of the last timeline entry (none when the
\* timeline is empty); the four per-status counts of get_status_summary add
\* up to the number of sessions in state.json.
C33_StatusOperationsReadOnly ==
    [][(op'.name \in {"check_signals", "get_status_summary"}) =>
          /\ disk' = disk
          /\ sigFiles' = sigFiles
          /\ auditDirs' = auditDirs
          /\ op'.name = "check_signals" =>
                LET r == op'.result
                    n == Len(r.timeline)
                IN /\ r.total_signals = n
                   /\ r.total_signals = Cardinality(DOMAIN sigFiles)
                   /\ IF n = 0 THEN r.latest_signal = None
                      ELSE /\ r.latest_signal # None
                           /\ r.latest_signal[1].timestamp = r.timeline[n].timestamp
                           /\ r.latest_signal[1].type = r.timeline[n].signal_type
                           /\ r.latest_signal[1].session_id = r.timeline[n].session_id
                           /\ \A i \in 1..n :
                                 r.timeline[i].timestamp <= r.latest_signal[1].timestamp
          /\ (op'.name = "get_status_summary" /\ disk # NoFile) =>
                LET r == op'.result
                IN r.pending + r.in_progress + r.completed + r.needs_revision =
                       Cardinality(DOMAIN disk.sessions)]_vars

\* C33 witness: get_status_summary has reported one completed session and
\* one needing revision, with a revision_needed signal the latest.
C33_Witness ==
    /\ op.name = "get_status_summary"
    /\ disk # NoFile
    /\ op.result.needs_revision = 1
    /\ op.result.in_progress = 1
    /\ op.result.latest_signal # None
    /\ op.result.latest_signal[1].type = "revision_needed"


\* C34: load_session_spec returns the spec of sessions/{id}/spec.md when the
\* file exists; otherwise the section whose header identifier is the
\* requested id, from the first candidate planning document that has such a
\* section; and None exactly when no candidate has one.
C34_LookupReturnsTheSessionsSection ==
    (op.name = "load_session_spec") =>
        LET Has(i) ==
                /\ op.plans[i] # None
                /\ \E j \in DOMAIN op.plans[i][1] : op.plans[i][1][j] = op.session_id
        IN IF op.session_file # None
           THEN op.result = Some([source |-> 0, header |-> op.session_file[1]])
           ELSE IF \E i \in DOMAIN op.plans : Has(i)
           THEN /\ op.result # None
                /\ op.result[1].header = op.session_id
                /\ Has(op.result[1].source)
                /\ \A i \in DOMAIN op.plans : Has(i) => op.result[1].source <= i
           ELSE op.result = None


\* C35: for every subset of the sections present in the text,
\* SessionSpec.from_markdown returns a SessionSpec in which each field whose
\* section is present holds what the section says and each field whose
\* section is missing holds its empty default (empty list, empty string,
\* worktree false); with only ASK USER IF missing, ask_user_if is empty and
\* every other field is populated.
C35_ParseDegradesPerField ==
    (op.name = "from_markdown") =>
        LET r == op.result
            Has(name) == name \in op.present
        IN /\ r.session_id = "1.1"
           /\ r.title = "Core State"
           /\ r.worktree = Has("Worktree")
           /\ r.scope_in = IF Has("Scope") THEN <<"state">> ELSE <<>>
           /\ r.scope_out = IF Has("Scope") THEN <<"cli">> ELSE <<>>
           /\ r.start_when = IF Has("Start When") THEN "after 1.0" ELSE ""
           /\ r.stop_when = IF Has("Stop When") THEN "tests pass" ELSE ""
           /\ r.prompt = IF Has("PROMPT")
                         THEN <<[t |-> "text", v |-> "implement the state store"]>>
                         ELSE <<>>
           /\ r.ask_user_if = IF Has("ASK USER IF") THEN <<"scope unclear">> ELSE <<>>
           /\ r.exit_criteria = IF Has("EXIT CRITERIA")
                                THEN <<"tests pass", "committed">> ELSE <<>>
           /\ r.git_instructions = IF Has("GIT INSTRUCTIONS")
                                   THEN <<[t |-> "text", v |-> "git commit"]>> ELSE <<>>
           /\ r.handoff = IF Has("HANDOFF")
                          THEN <<[t |-> "text", v |-> "next: 1.2"]>> ELSE <<>>

\* C35 witness: a block with every section but ASK USER IF has been parsed:
\* ask_user_if is empty, the exit criteria and the prompt are there.
C35_Witness ==
    /\ op.name = "from_markdown"
    /\ op.present = {SectionNames[i] : i \in DOMAIN SectionNames} \ {"ASK USER IF"}
    /\ op.result.ask_user_if = <<>>
    /\ Len(op.result.exit_criteria) = 2
    /\ op.result.prompt # <<>>
    /\ op.result.worktree


\* C36: load_code_changes shows at most 500 diff lines of any commit and at
\* most 1500 diff lines in all, and when a diff line or a session's commit
\* is left out its output has a truncation marker.
C36_DiffsAreCapped ==
    (op.name = "load_code_changes") =>
        LET c == op.changes
            Commits == {i \in DOMAIN c : c[i].kind = "commit"}
            RECURSIVE Total(_)
            Total(i) == IF i = 0 THEN 0
                        ELSE Total(i - 1) + (IF i \in Commits THEN c[i].lines ELSE 0)
            Given == {i \in DOMAIN op.diffs : op.diffs[i] # None}
            RECURSIVE Lines(_)
            Lines(i) == IF i = 0 THEN 0
                        ELSE Lines(i - 1) + (IF i \in Given THEN op.diffs[i][1] ELSE 0)
        IN /\ \A i \in Commits : c[i].lines <= 500
           /\ Total(Len(c)) <= 1500
           /\ Total(Len(c)) < Lines(Len(op.diffs)) =>
                 \E i \in DOMAIN c : c[i].kind \in {"more", "truncated"}


\* C37: when record_audit_fail makes its revision_needed signal visible, no
\* other process having written state.json meanwhile, state.json already
\* records the audited session as needs_revision with its iteration_count
\* one more than the call found.
C37_StateSavedBeforeRevisionSignal ==
    [][(op'.name = "signal" /\ proc[op'.proc].kind = "audit_fail"
          /\ OnlyWriter(op'.proc)) =>
          LET sid == proc[op'.proc].id IN
          /\ RevisionSignals(sigFiles') # RevisionSignals(sigFiles)
          /\ disk # NoFile
          /\ sid \in DOMAIN disk.sessions
          /\ disk.sessions[sid].status = "needs_revision"
          /\ disk.sessions[sid].iteration_count =
                 proc[op'.proc].base.sessions[sid].iteration_count + 1]_vars


\* C38: in every state.json the controllers leave, a session that is
\* needs_revision has audit_result failed and a session whose audit_result
\* is passed is completed.
C38_StatusAndAuditResultCohere ==
    disk # NoFile =>
        \A sid \in DOMAIN disk.sessions :
            /\ disk.sessions[sid].status = "needs_revision" =>
                  disk.sessions[sid].audit_result = "failed"
            /\ disk.sessions[sid].audit_result = "passed" =>
                  disk.sessions[sid].status = "completed"

\* C39: clear_signals running while write_signal runs makes no step of the
\* writer fail, the signal of a write_signal call that ends is in a file of
\* the directory or of the archive, and no step of clear_signals takes a
\* stored signal away; the listing may happen while the writer's temporary
\* file exists and is not yet renamed.
C39_ClearNeverDisturbsWriter ==
    [][/\ op'.name = "w_rename" =>
             /\ op'.ok
             /\ writer.signal \in StoredSignals'
       /\ op'.name \in {"c_glob", "c_is_file", "c_move"} =>
             StoredSignals \subseteq StoredSignals']_vars

\* The State Store operations that take a session id.
StoreOps ==
    {"add_session", "start_session", "complete_session", "mark_needs_revision",
     "increment_iteration"}

\* C40: add_session, start_session, complete_session, mark_needs_revision
\* and increment_iteration on id leave every other session as it was and
\* keep the history they found as a prefix of the history they leave;
\* complete_session, mark_needs_revision and increment_iteration also leave
\* current_session and the overall status as they were; complete_session
\* given no commit reference leaves the session's commit_hash as it was,
\* and given no notes leaves its notes as they were.
C40_StoreOperationsFrame ==
    [][op'.name \in StoreOps =>
          /\ OthersUnchanged(op'.id)
          /\ IsPrefix(state.history, state'.history)
          /\ op'.name \in {"complete_session", "mark_needs_revision",
                           "increment_iteration"} =>
                /\ state'.current_session = state.current_session
                /\ state'.status = state.status
          /\ (op'.name = "complete_session" /\ op'.ok) =>
                /\ ~Truthy(op'.commit_hash) =>
                      state'.sessions[op'.id].commit_hash =
                          state.sessions[op'.id].commit_hash
                /\ op'.notes = "" =>
                      state'.sessions[op'.id].notes = state.sessions[op'.id].notes]_vars

\* C40 witness: complete_session has acted without a commit reference and
\* without notes on a session that holds both, another session is tracked
\* and the history has earlier entries.
C40_Witness ==
    /\ op.name = "complete_session"
    /\ op.ok
    /\ op.commit_hash = None
    /\ op.notes = ""
    /\ state.sessions[op.id].commit_hash = Some("abc123")
    /\ state.sessions[op.id].notes = "missing tests"
    /\ DOMAIN state.sessions \ {op.id} # {}
    /\ Len(state.history) >= 4


====
